---- MODULE Spec2Model ----
(***************************************************************************)
(* Resilience primitives of cm123go: the per-key circuit breaker           *)
(* (src/utils/circuit-breaker.ts), the global request throttle with        *)
(* deduplication (src/utils/request-throttle.ts) and retryWithBackoff      *)
(* (src/utils/helpers.ts).  Each component has its own specification over  *)
(* the shared variables; the components it does not exercise stay idle.    *)
(***************************************************************************)
EXTENDS Integers, Sequences, FiniteSets, TLC

VARIABLES
    \* ---- circuit breaker ----
    circuitBreakers,   \* Map<string, CircuitBreakerState>: a function whose DOMAIN is the keys present
    now,               \* the value Date.now() last returned (ms)
    cbInFlight,        \* calls whose fn() is awaited: [key, admitted state] -> count
    cbInvoked,         \* key -> number of times the underlying fn was invoked
    cbLast,            \* outcome of the last circuit-breaker handler that ran
    cbStreak,          \* history: key -> failures recorded since the last success recorded
    \* ---- request throttle ----
    throttleState,     \* [activeCount, queue, inFlight]
    currentConfig,     \* [maxConcurrent, enableDeduplication]
    thReqs,            \* the promises created by throttledRequest, in submission order
                       \* (wasQueued is history: the request had to wait in the queue)
    thCallers,         \* one entry per throttledRequest call: [key, promise]
    \* ---- retryWithBackoff ----
    rtScript,          \* what the i-th invocation of fn does
    rtMaxAttempts,
    rtInitialDelay,
    rtPc,
    rtAttempt,
    rtLastError,
    rtInvocations,
    rtOutcome,
    rtDelays,
    \* ---- resilientFetch ----
    rfCalls,           \* one entry per operation resilientFetch handed to the throttle,
                       \* indexed like thReqs: where its circuit breaker and retry stand
    \* ---- BusStopService ----
    svCache,           \* the departures cache: stop -> [departures, timestamp]
    svOp,              \* the service call under way or last finished: its selected stops,
                       \* the per-stop calls and the result
    \* ---- TrainDepartureService ----
    trCache,           \* the train departures store: crsCode -> [departures, timestamp]
    trOp,              \* the service call under way or last finished
    \* ---- ETA calculator ----
    etaOp,             \* the calculateDepartures call under way or last finished
    \* ---- findNearest ----
    fnOp,              \* the findNearest call: its inputs and its outcome
    \* ---- geocodePostcode ----
    geoOp,             \* the geocodePostcode call under way or last finished
    \* ---- progressive search state (app-state.ts) ----
    uiState,           \* [displayedAtcoCodes, allDisplayItems, currentSearchRadius, ...]
    \* ---- stop selection of the both-directions calls ----
    selOp,             \* the nearby stops last selected from and the stops selected
    \* ---- render order of displayItems ----
    renderOp           \* the items last rendered and the order they were rendered in

cbVars == <<circuitBreakers, now, cbInFlight, cbInvoked, cbLast, cbStreak>>
thVars == <<throttleState, currentConfig, thReqs, thCallers>>
rtVars == <<rtScript, rtMaxAttempts, rtInitialDelay, rtPc, rtAttempt, rtLastError,
            rtInvocations, rtOutcome, rtDelays>>
rfVars == <<rfCalls>>
svVars == <<svCache, svOp>>
trVars == <<trCache, trOp>>
appVars == <<trCache, trOp, etaOp, fnOp, geoOp, uiState, selOp, renderOp>>
vars == <<circuitBreakers, now, cbInFlight, cbInvoked, cbLast, cbStreak,
          throttleState, currentConfig, thReqs, thCallers,
          rtScript, rtMaxAttempts, rtInitialDelay, rtPc, rtAttempt, rtLastError,
          rtInvocations, rtOutcome, rtDelays, rfCalls, svCache, svOp,
          trCache, trOp, etaOp, fnOp, geoOp, uiState, selOp, renderOp>>

----------------------------------------------------------------------------
(* Bounds of the model *)

\* total number of withCircuitBreaker calls explored
MaxCBCalls == 6
\* the clock advances in steps of TimeUnit ms ...
TimeUnit == 30000
\* ... at most MaxTicks times
MaxTicks == 6

----------------------------------------------------------------------------
(* Circuit breaker: src/utils/circuit-breaker.ts *)

\* the endpoint keys exercised: two entries of API_CIRCUIT_CONFIGS
CircuitKeys == {"bods-siri-vm", "bods-gtfs"}

DEFAULT_CONFIG == [failureThreshold |-> 3, resetTimeout |-> 30000, successThreshold |-> 1]

API_CIRCUIT_CONFIGS ==
    [k \in CircuitKeys |->
        IF k = "bods-siri-vm"
        THEN [failureThreshold |-> 3, resetTimeout |-> 60000, successThreshold |-> 2]
        ELSE [failureThreshold |-> 2, resetTimeout |-> 120000, successThreshold |-> 1]]

\* fullConfig of withCircuitBreaker as resilientFetch calls it: the defaults
\* overridden by the endpoint's entry
fullConfig(key) ==
    [f \in DOMAIN DEFAULT_CONFIG |->
        IF key \in DOMAIN API_CIRCUIT_CONFIGS THEN API_CIRCUIT_CONFIGS[key][f]
        ELSE DEFAULT_CONFIG[f]]

EmptyMap == [x \in {} |-> 0]

MapSet(m, k, v) == [x \in (DOMAIN m) \cup {k} |-> IF x = k THEN v ELSE m[x]]

MapDelete(m, k) == [x \in (DOMAIN m) \ {k} |-> m[x]]

\* getCircuitState creates the entry when it is missing; the result is the map
getCircuitState(cbs, key) ==
    IF key \in DOMAIN cbs THEN cbs
    ELSE MapSet(cbs, key, [state |-> "CLOSED", failures |-> 0, successes |-> 0,
                           lastFailureTime |-> 0, nextAttemptTime |-> 0])

\* canExecute comparing against the wrong timestamp: the cooldown is ignored
canExecuteWrongTimestamp(cbs0, key, t) ==
    LET cbs == getCircuitState(cbs0, key)
        circuit == cbs[key]
    IN  CASE circuit.state = "CLOSED" -> [ok |-> TRUE, cbs |-> cbs]
          [] circuit.state = "OPEN" ->
                IF t >= circuit.lastFailureTime
                THEN [ok |-> TRUE,
                      cbs |-> MapSet(cbs, key,
                                 [circuit EXCEPT !.state = "HALF_OPEN", !.successes = 0])]
                ELSE [ok |-> FALSE, cbs |-> cbs]
          [] circuit.state = "HALF_OPEN" -> [ok |-> TRUE, cbs |-> cbs]

\* canExecute entering half-open without clearing the success count
canExecuteKeepsSuccesses(cbs0, key, t) ==
    LET cbs == getCircuitState(cbs0, key)
        circuit == cbs[key]
    IN  CASE circuit.state = "CLOSED" -> [ok |-> TRUE, cbs |-> cbs]
          [] circuit.state = "OPEN" ->
                IF t >= circuit.nextAttemptTime
                THEN [ok |-> TRUE,
                      cbs |-> MapSet(cbs, key, [circuit EXCEPT !.state = "HALF_OPEN"])]
                ELSE [ok |-> FALSE, cbs |-> cbs]
          [] circuit.state = "HALF_OPEN" -> [ok |-> TRUE, cbs |-> cbs]

\* canExecute: [ok, cbs] - the verdict and the registry after the call
canExecute(cbs0, key, t) ==
    LET cbs == getCircuitState(cbs0, key)
        circuit == cbs[key]
    IN  CASE circuit.state = "CLOSED" -> [ok |-> TRUE, cbs |-> cbs]
          [] circuit.state = "OPEN" ->
                IF t >= circuit.nextAttemptTime
                THEN [ok |-> TRUE,
                      cbs |-> MapSet(cbs, key,
                                 [circuit EXCEPT !.state = "HALF_OPEN", !.successes = 0])]
                ELSE [ok |-> FALSE, cbs |-> cbs]
          [] circuit.state = "HALF_OPEN" -> [ok |-> TRUE, cbs |-> cbs]

\* recordSuccess that forgets to clear the failure count of a closed circuit
recordSuccessKeepsFailures(cbs0, key, config) ==
    LET cbs == getCircuitState(cbs0, key)
        circuit == cbs[key]
    IN  IF circuit.state = "HALF_OPEN"
        THEN IF circuit.successes + 1 >= config.successThreshold
             THEN MapSet(cbs, key, [circuit EXCEPT !.state = "CLOSED",
                                                   !.failures = 0,
                                                   !.successes = 0])
             ELSE MapSet(cbs, key, [circuit EXCEPT !.successes = @ + 1])
        ELSE cbs

\* recordSuccess comparing with > instead of >=
recordSuccessOffByOne(cbs0, key, config) ==
    LET cbs == getCircuitState(cbs0, key)
        circuit == cbs[key]
    IN  IF circuit.state = "HALF_OPEN"
        THEN IF circuit.successes + 1 > config.successThreshold
             THEN MapSet(cbs, key, [circuit EXCEPT !.state = "CLOSED",
                                                   !.failures = 0,
                                                   !.successes = 0])
             ELSE MapSet(cbs, key, [circuit EXCEPT !.successes = @ + 1])
        ELSE IF circuit.state = "CLOSED"
             THEN MapSet(cbs, key, [circuit EXCEPT !.failures = 0])
             ELSE cbs

recordSuccess(cbs0, key, config) ==
    LET cbs == getCircuitState(cbs0, key)
        circuit == cbs[key]
    IN  IF circuit.state = "HALF_OPEN"
        THEN IF circuit.successes + 1 >= config.successThreshold
             THEN MapSet(cbs, key, [circuit EXCEPT !.state = "CLOSED",
                                                   !.failures = 0,
                                                   !.successes = 0])
             ELSE MapSet(cbs, key, [circuit EXCEPT !.successes = @ + 1])
        ELSE IF circuit.state = "CLOSED"
             THEN MapSet(cbs, key, [circuit EXCEPT !.failures = 0])
             ELSE cbs

recordFailure(cbs0, key, config, t) ==
    LET cbs == getCircuitState(cbs0, key)
        circuit == cbs[key]
        counted == [circuit EXCEPT !.failures = @ + 1, !.lastFailureTime = t]
    IN  IF circuit.state = "HALF_OPEN"
        THEN MapSet(cbs, key, [counted EXCEPT !.state = "OPEN",
                                              !.nextAttemptTime = t + config.resetTimeout])
        ELSE IF counted.failures >= config.failureThreshold
             THEN MapSet(cbs, key, [counted EXCEPT !.state = "OPEN",
                                                   !.nextAttemptTime = t + config.resetTimeout])
             ELSE MapSet(cbs, key, counted)

AdmitStates == {"CLOSED", "HALF_OPEN"}

NoEvent == [kind |-> "none", key |-> "", retryAfter |-> 0]

CBCallsMade == LET S == CircuitKeys
                   RECURSIVE Sum(_)
                   Sum(T) == IF T = {} THEN 0
                             ELSE LET x == CHOOSE y \in T : TRUE
                                  IN cbInvoked[x] + Sum(T \ {x})
               IN Sum(S)

\* withCircuitBreaker up to the await of fn(): the circuit is looked up and
\* asked; a refused call throws CircuitOpenError, an admitted one invokes fn
withCircuitBreaker(key) ==
    /\ CBCallsMade < MaxCBCalls
    /\ LET r == canExecute(circuitBreakers, key, now)
       IN  IF ~r.ok
           \* Date.now() is read again: the clock is where it was or has moved on
           THEN \E t2 \in {t \in {now, now + TimeUnit} : t <= MaxTicks * TimeUnit} :
                  /\ now' = t2
                  /\ circuitBreakers' = r.cbs
                  /\ cbLast' = [kind |-> "CircuitOpenError", key |-> key,
                                retryAfter |-> r.cbs[key].nextAttemptTime - t2]
                  /\ UNCHANGED <<cbInFlight, cbInvoked>>
           ELSE /\ circuitBreakers' = r.cbs
                /\ cbInvoked' = [cbInvoked EXCEPT ![key] = @ + 1]
                /\ cbInFlight' = [cbInFlight EXCEPT ![<<key, r.cbs[key].state>>] = @ + 1]
                /\ cbLast' = [kind |-> "admitted", key |-> key, retryAfter |-> 0]
                /\ UNCHANGED now
    /\ UNCHANGED cbStreak
    /\ UNCHANGED <<thVars, rtVars, rfVars, svVars, appVars>>

\* the awaited fn() resolved: recordSuccess, the result is returned
fnResolved(key, adm) ==
    /\ cbInFlight[<<key, adm>>] > 0
    /\ cbInFlight' = [cbInFlight EXCEPT ![<<key, adm>>] = @ - 1]
    /\ circuitBreakers' = recordSuccess(circuitBreakers, key, fullConfig(key))
    /\ cbLast' = [kind |-> "success", key |-> key, retryAfter |-> 0]
    /\ cbStreak' = [cbStreak EXCEPT ![key] = 0]
    /\ UNCHANGED <<now, cbInvoked>>
    /\ UNCHANGED <<thVars, rtVars, rfVars, svVars, appVars>>

\* the awaited fn() rejected: recordFailure, the error is rethrown
fnRejected(key, adm) ==
    /\ cbInFlight[<<key, adm>>] > 0
    /\ cbInFlight' = [cbInFlight EXCEPT ![<<key, adm>>] = @ - 1]
    /\ circuitBreakers' = recordFailure(circuitBreakers, key, fullConfig(key), now)
    /\ cbLast' = [kind |-> "failure", key |-> key, retryAfter |-> 0]
    /\ cbStreak' = [cbStreak EXCEPT ![key] = @ + 1]
    /\ UNCHANGED <<now, cbInvoked>>
    /\ UNCHANGED <<thVars, rtVars, rfVars, svVars, appVars>>

\* resetCircuitBreaker clearing the whole map, as resetAllCircuitBreakers does
resetCircuitBreakerClearsAll(key) ==
    /\ key \in DOMAIN circuitBreakers
    /\ circuitBreakers' = EmptyMap
    /\ cbLast' = [kind |-> "reset", key |-> key, retryAfter |-> 0]
    /\ cbStreak' = [cbStreak EXCEPT ![key] = 0]
    /\ UNCHANGED <<now, cbInFlight, cbInvoked>>
    /\ UNCHANGED <<thVars, rtVars, rfVars, svVars, appVars>>

resetCircuitBreaker(key) ==
    /\ key \in DOMAIN circuitBreakers
    /\ circuitBreakers' = MapDelete(circuitBreakers, key)
    /\ cbLast' = [kind |-> "reset", key |-> key, retryAfter |-> 0]
    /\ cbStreak' = [cbStreak EXCEPT ![key] = 0]
    /\ UNCHANGED <<now, cbInFlight, cbInvoked>>
    /\ UNCHANGED <<thVars, rtVars, rfVars, svVars, appVars>>

\* time passes between handlers
Tick ==
    /\ now + TimeUnit <= MaxTicks * TimeUnit
    /\ now' = now + TimeUnit
    /\ cbLast' = [kind |-> "tick", key |-> "", retryAfter |-> 0]
    /\ UNCHANGED <<circuitBreakers, cbInFlight, cbInvoked, cbStreak>>
    /\ UNCHANGED <<thVars, rtVars, rfVars, svVars, appVars>>

----------------------------------------------------------------------------
(* Request throttle: src/utils/request-throttle.ts *)

\* total number of throttledRequest calls explored
MaxThCalls == 4
\* largest maxConcurrent the throttle is configured with
MaxConcurrentBound == 2

ThrottleKeys == {"k1", "k2"}

\* what the fn handed to throttledRequest does when it is invoked: it returns
\* a promise that settles later, or it throws before returning one
FnKinds == {"async", "throws"}

DEFAULT_THROTTLE_CONFIG == [maxConcurrent |-> 3, enableDeduplication |-> TRUE]

ThrottleConfigs == [maxConcurrent : 1..MaxConcurrentBound, enableDeduplication : BOOLEAN]

EmptyThrottle == [activeCount |-> 0, queue |-> << >>, inFlight |-> EmptyMap]

\* the promise of request r is settled: status and value are final
Settle(reqs, r, st) == [reqs EXCEPT ![r].status = st, ![r].value = r]

\* Array.prototype.pop in place of shift: the newest entry is taken
queuePop(q) == [next |-> q[Len(q)], rest |-> SubSeq(q, 1, Len(q) - 1)]

\* throttleState.queue.shift(): the oldest entry and the remaining queue
queueShift(q) == [next |-> Head(q), rest |-> Tail(q)]

RECURSIVE processQueue(_, _)
RECURSIVE executeRequest(_, _, _)

\* processQueue: w = [ts, reqs] is the throttle state and the promises
processQueue(w, cfg) ==
    IF w.ts.activeCount >= cfg.maxConcurrent THEN w
    ELSE IF w.ts.queue = << >> THEN w
    ELSE LET sh == queueShift(w.ts.queue)
         IN  executeRequest([w EXCEPT !.ts.queue = sh.rest], sh.next, cfg)

\* executeRequest without its activeCount++ : a started operation takes no
\* slot
executeRequestUncounted(w, r, cfg) ==
    IF w.reqs[r].fn = "throws"
    THEN LET rejected == [w EXCEPT !.reqs = Settle(@, r, "rejected")]
             cleaned == IF cfg.enableDeduplication
                        THEN [rejected EXCEPT
                                !.ts.inFlight = MapDelete(@, w.reqs[r].key)]
                        ELSE rejected
         IN  processQueue(cleaned, cfg)
    ELSE [w EXCEPT !.reqs[r].status = "running"]

\* executeRequest up to the await of request.fn(); a fn that throws before
\* returning its promise is caught at once and the finally block runs
executeRequest(w, r, cfg) ==
    LET counted == [w EXCEPT !.ts.activeCount = @ + 1]
    IN  IF w.reqs[r].fn = "throws"
        THEN LET rejected == [counted EXCEPT !.reqs = Settle(@, r, "rejected"),
                                             !.ts.activeCount = @ - 1]
                 cleaned == IF cfg.enableDeduplication
                            THEN [rejected EXCEPT
                                    !.ts.inFlight = MapDelete(@, w.reqs[r].key)]
                            ELSE rejected
             IN  processQueue(cleaned, cfg)
        ELSE [counted EXCEPT !.reqs[r].status = "running"]

\* the cleanup placed after the try block instead of in finally: a failed
\* operation keeps its slot and its dedup entry, and the queue is not served
executeRequestFinishNoFinally(w, r, cfg) ==
    IF w.reqs[r].status = "fnRejected"
    THEN [w EXCEPT !.reqs = Settle(@, r, "rejected")]
    ELSE LET settled == [w EXCEPT !.reqs = Settle(@, r, "resolved"),
                                  !.ts.activeCount = @ - 1]
             cleaned == IF cfg.enableDeduplication
                        THEN [settled EXCEPT
                                !.ts.inFlight = MapDelete(@, w.reqs[r].key)]
                        ELSE settled
         IN  processQueue(cleaned, cfg)

\* the rest of executeRequest once request.fn() has settled: the promise is
\* resolved or rejected, then the finally block
executeRequestFinish(w, r, cfg) ==
    LET settled == [w EXCEPT !.reqs = Settle(@, r, IF w.reqs[r].status = "fnResolved"
                                                   THEN "resolved" ELSE "rejected"),
                             !.ts.activeCount = @ - 1]
        cleaned == IF cfg.enableDeduplication
                   THEN [settled EXCEPT !.ts.inFlight = MapDelete(@, w.reqs[r].key)]
                   ELSE settled
    IN  processQueue(cleaned, cfg)

\* the admission test written with <= : one call too many is let in
hasCapacityOffByOne(ts, cfg) == ts.activeCount <= cfg.maxConcurrent

\* throttledRequest's admission test: a slot is free
hasCapacity(ts, cfg) == ts.activeCount < cfg.maxConcurrent

\* the deduplication test applied only when the throttle is at its limit
isDuplicateOnlyWhenFull(ts, cfg, key) ==
    /\ cfg.enableDeduplication
    /\ key \in DOMAIN ts.inFlight
    /\ ts.activeCount >= cfg.maxConcurrent

\* throttledRequest's deduplication test: the key has an in-flight promise
isDuplicate(ts, cfg, key) == cfg.enableDeduplication /\ key \in DOMAIN ts.inFlight

World == [ts |-> throttleState, reqs |-> thReqs]

throttledRequest(key, fn) ==
    /\ Len(thCallers) < MaxThCalls
    /\ IF isDuplicate(throttleState, currentConfig, key)
       THEN /\ thCallers' = Append(thCallers,
                                   [key |-> key, promise |-> throttleState.inFlight[key]])
            /\ UNCHANGED <<throttleState, thReqs>>
       ELSE LET r == Len(thReqs) + 1
                w0 == [ts |-> throttleState,
                       reqs |-> Append(thReqs, [key |-> key, fn |-> fn,
                                                status |-> "queued", value |-> 0,
                                                wasQueued |-> FALSE])]
                w1 == IF hasCapacity(w0.ts, currentConfig)
                      THEN executeRequest(w0, r, currentConfig)
                      ELSE [w0 EXCEPT !.ts.queue = Append(@, r),
                                      !.reqs[r].wasQueued = TRUE]
                w2 == IF currentConfig.enableDeduplication
                      THEN [w1 EXCEPT !.ts.inFlight = MapSet(@, key, r)]
                      ELSE w1
            IN  /\ throttleState' = w2.ts
                /\ thReqs' = w2.reqs
                /\ thCallers' = Append(thCallers, [key |-> key, promise |-> r])
    /\ UNCHANGED currentConfig
    /\ UNCHANGED <<cbVars, rtVars, rfVars, svVars, appVars>>

\* the promise returned by request.fn() settles
fnSettles(r, ok) ==
    /\ r \in DOMAIN thReqs
    /\ thReqs[r].status = "running"
    /\ thReqs' = [thReqs EXCEPT ![r].status = IF ok THEN "fnResolved" ELSE "fnRejected"]
    /\ UNCHANGED <<throttleState, currentConfig, thCallers>>
    /\ UNCHANGED <<cbVars, rtVars, rfVars, svVars, appVars>>

\* executeRequest resumes after its await
executeRequestResumes(r) ==
    /\ r \in DOMAIN thReqs
    /\ thReqs[r].status \in {"fnResolved", "fnRejected"}
    /\ LET w == executeRequestFinish(World, r, currentConfig)
       IN  /\ throttleState' = w.ts
           /\ thReqs' = w.reqs
    /\ UNCHANGED <<currentConfig, thCallers>>
    /\ UNCHANGED <<cbVars, rtVars, rfVars, svVars, appVars>>

configureThrottle(config) ==
    /\ config # currentConfig
    /\ currentConfig' = config
    /\ UNCHANGED <<throttleState, thReqs, thCallers>>
    /\ UNCHANGED <<cbVars, rtVars, rfVars, svVars, appVars>>

resetThrottle ==
    /\ throttleState # EmptyThrottle \/ currentConfig # DEFAULT_THROTTLE_CONFIG
    /\ throttleState' = EmptyThrottle
    /\ currentConfig' = DEFAULT_THROTTLE_CONFIG
    /\ UNCHANGED <<thReqs, thCallers>>
    /\ UNCHANGED <<cbVars, rtVars, rfVars, svVars, appVars>>

----------------------------------------------------------------------------
(* retryWithBackoff: src/utils/helpers.ts *)

\* largest maxAttempts explored
MaxAttemptsBound == 3

NoValue == [type |-> "undefined", message |-> ""]

BACKOFF_CAP == 10000

RECURSIVE Pow2(_)
Pow2(n) == IF n <= 0 THEN 1 ELSE 2 * Pow2(n - 1)

Min(a, b) == IF a <= b THEN a ELSE b

\* lastError = err instanceof Error ? err : new Error(String(err))
toError(err) == IF err.type = "Error" THEN err
                ELSE [type |-> "Error", message |-> err.message]

\* the last-attempt test off by one: gives up one attempt early
isLastAttemptEarly(attempt, maxAttempts) == attempt >= maxAttempts - 1

\* attempt === maxAttempts
isLastAttempt(attempt, maxAttempts) == attempt = maxAttempts

\* the backoff exponent off by one: 2^attempt for 2^(attempt - 1)
backoffDelayDoubled(initialDelay, attempt) ==
    Min(initialDelay * Pow2(attempt), BACKOFF_CAP)

\* Math.min(initialDelay * Math.pow(2, attempt - 1), 10000)
backoffDelay(initialDelay, attempt) == Min(initialDelay * Pow2(attempt - 1), BACKOFF_CAP)

\* retryWithBackoff is called: attempt = 1, fn is invoked and awaited
retryStart ==
    /\ rtPc = "start"
    /\ rtAttempt' = 1
    /\ rtInvocations' = rtInvocations + 1
    /\ rtPc' = "awaitFn"
    /\ UNCHANGED <<rtScript, rtMaxAttempts, rtInitialDelay, rtLastError, rtOutcome, rtDelays>>
    /\ UNCHANGED <<cbVars, thVars, rfVars, svVars, appVars>>

\* the awaited fn() settles: return its value, or catch, remember the error
\* and either rethrow (last attempt) or start the backoff timer
retryFnSettles ==
    /\ rtPc = "awaitFn"
    /\ LET o == rtScript[rtInvocations]
       IN  IF o.type = "value"
           THEN /\ rtOutcome' = [kind |-> "returned", value |-> o]
                /\ rtPc' = "done"
                /\ UNCHANGED <<rtLastError, rtDelays>>
           ELSE /\ rtLastError' = toError(o)
                /\ IF isLastAttempt(rtAttempt, rtMaxAttempts)
                   THEN /\ rtOutcome' = [kind |-> "threw", value |-> toError(o)]
                        /\ rtPc' = "done"
                        /\ UNCHANGED rtDelays
                   ELSE /\ rtDelays' = Append(rtDelays, backoffDelay(rtInitialDelay, rtAttempt))
                        /\ rtPc' = "awaitTimer"
                        /\ UNCHANGED rtOutcome
    /\ UNCHANGED <<rtScript, rtMaxAttempts, rtInitialDelay, rtAttempt, rtInvocations>>
    /\ UNCHANGED <<cbVars, thVars, rfVars, svVars, appVars>>

\* the backoff timer fires: attempt++; while attempt <= maxAttempts fn is
\* invoked again, otherwise the loop ends and lastError is thrown
retryTimerFires ==
    /\ rtPc = "awaitTimer"
    /\ rtAttempt' = rtAttempt + 1
    /\ IF rtAttempt + 1 <= rtMaxAttempts
       THEN /\ rtInvocations' = rtInvocations + 1
            /\ rtPc' = "awaitFn"
            /\ UNCHANGED rtOutcome
       ELSE /\ rtOutcome' = [kind |-> "threw", value |-> rtLastError]
            /\ rtPc' = "done"
            /\ UNCHANGED rtInvocations
    /\ UNCHANGED <<rtScript, rtMaxAttempts, rtInitialDelay, rtLastError, rtDelays>>
    /\ UNCHANGED <<cbVars, thVars, rfVars, svVars, appVars>>

----------------------------------------------------------------------------
(* resilientFetch: src/utils/resilient-fetch.ts
   Throttle -> CircuitBreaker -> Retry -> raw call *)

\* largest number of resilientFetch calls explored
MaxRFCalls == 3

\* how many cooldown periods the clock is advanced by while resilientFetch
\* runs
MaxRFTicks == 1

\* the clock is advanced by one cooldown period of the endpoint at a time
RFTimeStep == API_CIRCUIT_CONFIGS["bods-gtfs"].resetTimeout

\* the endpoint the calls are made for, and their request keys
RFApiKeys == {"bods-gtfs"}

\* config.retry?.maxAttempts ?? 2
RFMaxAttempts == 2

\* the throttle invokes executeWithCircuitBreaker for request r:
\* withCircuitBreaker asks canExecute and either throws CircuitOpenError
\* (the promise of the async function is rejected) or calls executeWithRetry,
\* whose first attempt invokes the raw call; st = [w, cbs, calls]
startOperation(st, r, t) ==
    LET v == canExecute(st.cbs, st.calls[r].apiKey, t)
    IN  IF v.ok
        THEN [st EXCEPT !.cbs = v.cbs,
                        !.calls[r].pc = "awaitFn",
                        !.calls[r].attempt = 1,
                        !.calls[r].invocations = 1,
                        !.calls[r].admitted = TRUE]
        ELSE [st EXCEPT !.cbs = v.cbs,
                        !.calls[r].pc = "circuitOpen",
                        !.w.reqs[r].status = "fnRejected"]

startNewlyRunning(st, reqs0, t) ==
    LET \* the requests the throttle started in this step
        started == {r \in DOMAIN st.w.reqs :
                       /\ st.w.reqs[r].status = "running"
                       /\ r \in DOMAIN reqs0 => reqs0[r].status = "queued"}
    IN  IF started = {} THEN st
        ELSE startOperation(st, CHOOSE r \in started : TRUE, t)

\* a retry loop that gives up at the first failed attempt
attemptOutcomeNoRetry(call, ok) ==
    IF ok THEN [call EXCEPT !.pc = "retryReturned"]
    ELSE [call EXCEPT !.failed = @ + 1, !.pc = "retryThrew"]

\* retryWithBackoff after the awaited raw call settled: return the value,
\* rethrow on the last attempt, otherwise wait for the backoff delay
attemptOutcome(call, ok) ==
    IF ok THEN [call EXCEPT !.pc = "retryReturned"]
    ELSE IF isLastAttempt(call.attempt, RFMaxAttempts)
         THEN [call EXCEPT !.failed = @ + 1, !.pc = "retryThrew"]
         ELSE [call EXCEPT !.failed = @ + 1, !.pc = "backoff"]

\* resilientFetch(apiKey, requestKey, fn) with the default options: the
\* operation is handed to throttledRequest under fullKey
resilientFetch(apiKey, requestKey) ==
    /\ Len(thCallers) < MaxRFCalls
    /\ LET \* const fullKey = `${apiKey}:${requestKey}`
           key == <<apiKey, requestKey>>
       IN  IF isDuplicate(throttleState, currentConfig, key)
           THEN /\ thCallers' = Append(thCallers,
                                       [key |-> key, promise |-> throttleState.inFlight[key]])
                /\ UNCHANGED <<throttleState, thReqs, rfCalls, circuitBreakers>>
           ELSE LET r == Len(thReqs) + 1
                    w0 == [ts |-> throttleState,
                           reqs |-> Append(thReqs, [key |-> key, fn |-> "async",
                                                    status |-> "queued", value |-> 0,
                                                    wasQueued |-> FALSE])]
                    w1 == IF hasCapacity(w0.ts, currentConfig)
                          THEN executeRequest(w0, r, currentConfig)
                          ELSE [w0 EXCEPT !.ts.queue = Append(@, r),
                                          !.reqs[r].wasQueued = TRUE]
                    w2 == IF currentConfig.enableDeduplication
                          THEN [w1 EXCEPT !.ts.inFlight = MapSet(@, key, r)]
                          ELSE w1
                    st == startNewlyRunning([w |-> w2, cbs |-> circuitBreakers,
                                             calls |-> Append(rfCalls,
                                                 [apiKey |-> apiKey, pc |-> "queued",
                                                  attempt |-> 0, invocations |-> 0,
                                                  failed |-> 0, recorded |-> << >>,
                                                  admitted |-> FALSE])],
                                            thReqs, now)
                IN  /\ throttleState' = st.w.ts
                    /\ thReqs' = st.w.reqs
                    /\ rfCalls' = st.calls
                    /\ circuitBreakers' = st.cbs
                    /\ thCallers' = Append(thCallers, [key |-> key, promise |-> r])
    /\ UNCHANGED <<now, cbInFlight, cbInvoked, cbLast, cbStreak, currentConfig>>
    /\ UNCHANGED <<rtVars, svVars, appVars>>

\* the raw call of operation r settles and retryWithBackoff resumes
rawCallSettles(r, ok) ==
    /\ r \in DOMAIN rfCalls
    /\ rfCalls[r].pc = "awaitFn"
    /\ rfCalls' = [rfCalls EXCEPT ![r] = attemptOutcome(@, ok)]
    /\ UNCHANGED <<cbVars, thVars, rtVars, svVars, appVars>>

\* the backoff delay of operation r has passed: the next attempt invokes
\* the raw call again
backoffElapsed(r) ==
    /\ r \in DOMAIN rfCalls
    /\ rfCalls[r].pc = "backoff"
    /\ rfCalls' = [rfCalls EXCEPT ![r].attempt = @ + 1,
                                  ![r].invocations = @ + 1,
                                  ![r].pc = "awaitFn"]
    /\ UNCHANGED <<cbVars, thVars, rtVars, svVars, appVars>>

\* withCircuitBreaker resumes after its await of executeWithRetry():
\* recordSuccess and return, or recordFailure and rethrow
circuitBreakerResumes(r) ==
    /\ r \in DOMAIN rfCalls
    /\ rfCalls[r].pc \in {"retryReturned", "retryThrew"}
    /\ LET key == rfCalls[r].apiKey
           ok == rfCalls[r].pc = "retryReturned"
       IN  /\ circuitBreakers' =
                 IF ok THEN recordSuccess(circuitBreakers, key, fullConfig(key))
                 ELSE recordFailure(circuitBreakers, key, fullConfig(key), now)
           /\ rfCalls' = [rfCalls EXCEPT
                 ![r].recorded = Append(@, IF ok THEN "success" ELSE "failure"),
                 ![r].pc = "done"]
           /\ thReqs' = [thReqs EXCEPT
                 ![r].status = IF ok THEN "fnResolved" ELSE "fnRejected"]
    /\ UNCHANGED <<now, cbInFlight, cbInvoked, cbLast, cbStreak>>
    /\ UNCHANGED <<throttleState, currentConfig, thCallers>>
    /\ UNCHANGED <<rtVars, svVars, appVars>>

\* executeRequest resumes after its await: the caller's promise settles, the
\* slot is freed and the head of the queue, if any, is started
throttleResumes(r) ==
    /\ r \in DOMAIN rfCalls
    /\ thReqs[r].status \in {"fnResolved", "fnRejected"}
    /\ LET w == executeRequestFinish(World, r, currentConfig)
           st == startNewlyRunning([w |-> w, cbs |-> circuitBreakers, calls |-> rfCalls],
                                   thReqs, now)
       IN  /\ throttleState' = st.w.ts
           /\ thReqs' = st.w.reqs
           /\ rfCalls' = st.calls
           /\ circuitBreakers' = st.cbs
    /\ UNCHANGED <<now, cbInFlight, cbInvoked, cbLast, cbStreak>>
    /\ UNCHANGED <<currentConfig, thCallers>>
    /\ UNCHANGED <<rtVars, svVars, appVars>>

\* time passes while resilientFetch calls are under way
rfTick ==
    /\ now + RFTimeStep <= MaxRFTicks * RFTimeStep
    /\ now' = now + RFTimeStep
    /\ UNCHANGED <<circuitBreakers, cbInFlight, cbInvoked, cbLast, cbStreak>>
    /\ UNCHANGED <<thVars, rtVars, rfVars, svVars, appVars>>

----------------------------------------------------------------------------
(* BusStopService: src/core/bus-stops/service.ts *)

\* largest number of service calls explored
MaxSvOps == 2

\* how many times the clock is advanced while the service runs, one cache
\* lifetime at a time
MaxSvTicks == 2

\* the stops findNearest can return, nearest first
NearbyStopIds == <<"s1", "s2">>

\* the departure lists a fetch can deliver
DepartureLists == {<< >>, <<"d1">>}

\* config.busStops.departuresCacheTtl
DEPARTURES_CACHE_TTL == 60000

getOppositeBearing(bearing) ==
    CASE bearing = "N" -> "S"
      [] bearing = "S" -> "N"
      [] OTHER -> "none"

\* slice(0, 2) taking three
Take3(seq) == SubSeq(seq, 1, Min(3, Len(seq)))

\* .slice(0, 2)
Take2(seq) == SubSeq(seq, 1, Min(2, Len(seq)))

\* stopsToShow: up to 2 stops with the nearest stop's bearing, then up to 2
\* with the opposite bearing (or, when there is no opposite, with any other
\* bearing)
stopsToShow(nearbyStops) ==
    LET primaryBearing == nearbyStops[1].bearing
        oppositeBearing == getOppositeBearing(nearbyStops[1].bearing)
        primaryStops == SelectSeq(nearbyStops, LAMBDA st : st.bearing = primaryBearing)
        oppositeStops ==
            IF oppositeBearing # "none"
            THEN SelectSeq(nearbyStops, LAMBDA st : st.bearing = oppositeBearing)
            ELSE SelectSeq(nearbyStops,
                           LAMBDA st : st.bearing # "none" /\ st.bearing # primaryBearing)
        shown == Take2(primaryStops) \o Take2(oppositeStops)
    IN  [i \in 1..Len(shown) |-> shown[i].atcoCode]

\* what findNearest can deliver: it throws, or returns the stops within
\* range, nearest first (possibly none)
FindOutcomes ==
    {[throws |-> TRUE, bearings |-> << >>]} \cup
    {[throws |-> FALSE, bearings |-> b] :
        \* a stop's bearing: two opposite compass points, a value the opposites table
        \* does not know, or none at all
        b \in UNION {[1..n -> {"N", "S", "X", "none"}] : n \in 0..Len(NearbyStopIds)}}

\* the null a cache read resolves to
Null == [isNull |-> TRUE, departures |-> << >>]

\* BusStopCache.getDepartures: the stored list, or null when nothing is
\* stored for the stop or the entry is older than the TTL
cacheGetDepartures(cache, stop, t) ==
    IF stop \in DOMAIN cache /\ t - cache[stop].timestamp <= DEPARTURES_CACHE_TTL
    THEN [isNull |-> FALSE, departures |-> cache[stop].departures]
    ELSE Null

\* BusStopCache.setDepartures
cacheSetDepartures(cache, stop, departures, t) ==
    MapSet(cache, stop, [departures |-> departures, timestamp |-> t])

NoResult == [success |-> FALSE, boards |-> << >>, partialFailures |-> << >>,
             error |-> ""]

IdleOp == [kind |-> "none", pc |-> "idle", selected |-> << >>, subs |-> << >>,
           result |-> NoResult, n |-> 0]

\* one per-stop call: mode "cacheFirst" is getDeparturesForStop, mode "fresh"
\* is the mapper of refreshBothDirections
NewSub(stop, mode) ==
    [stop |-> stop, mode |-> mode,
     pc |-> IF mode = "cacheFirst" THEN "readCache" ELSE "fetch",
     cached |-> Null, fetchResult |-> "none", fetched |-> << >>,
     writeResult |-> "none", status |-> "pending", board |-> [stop |-> "", departures |-> << >>, isStale |-> FALSE], error |-> ""]

Fulfil(sub, departures, isStale) ==
    [sub EXCEPT !.pc = "done", !.status = "fulfilled",
                !.board = [stop |-> sub.stop, departures |-> departures,
                           isStale |-> isStale]]

Reject(sub, error) == [sub EXCEPT !.pc = "done", !.status = "rejected", !.error = error]

\* if (cached && cached.length > 0)
isCacheHit(cached) == ~cached.isNull /\ Len(cached.departures) > 0

\* the catch block of getDeparturesForStop rethrowing instead of returning
\* an empty board
onFetchPathErrorRethrows(sub, error) == Reject(sub, error)

\* a failure of the fetch or of the cache write: getDeparturesForStop's
\* catch returns an empty board, the mapper of refreshBothDirections has no
\* catch and rejects
onFetchPathError(sub, error) ==
    IF sub.mode = "cacheFirst" THEN Fulfil(sub, << >>, FALSE) ELSE Reject(sub, error)

\* the partition with a rejected call dropped instead of reported
partitionDropsFailures(selected, subs) ==
    LET ok == SelectSeq(subs, LAMBDA sub : sub.status = "fulfilled")
    IN  [boards |-> [i \in 1..Len(ok) |-> ok[i].board],
         partialFailures |-> << >>]

\* results.forEach: fulfilled calls give boards, rejected calls give
\* partialFailures entries carrying the stop and the error
partition(selected, subs) ==
    LET ok == SelectSeq(subs, LAMBDA sub : sub.status = "fulfilled")
        ko == SelectSeq(subs, LAMBDA sub : sub.status = "rejected")
    IN  [boards |-> [i \in 1..Len(ok) |-> ok[i].board],
         partialFailures |-> [i \in 1..Len(ko) |-> [stop |-> ko[i].stop,
                                                    error |-> ko[i].error]]]

\* the result once every per-stop call has settled
resultOf(selected, subs) ==
    LET p == partition(selected, subs)
    IN  IF Len(p.boards) > 0
        THEN [success |-> TRUE, boards |-> p.boards,
              partialFailures |-> p.partialFailures, error |-> ""]
        ELSE [success |-> FALSE, boards |-> << >>, partialFailures |-> << >>,
              error |-> "DEPARTURES_UNAVAILABLE"]

svIdle == svOp.pc \in {"idle", "done"} /\ svOp.n < MaxSvOps

\* getDeparturesForStop(stop) called on its own (as the event handlers do)
getDeparturesForStop(stop) ==
    /\ svIdle
    /\ svOp' = [kind |-> "getDeparturesForStop", pc |-> "awaitAll",
                selected |-> <<stop>>, subs |-> <<NewSub(stop, "cacheFirst")>>,
                result |-> NoResult, n |-> svOp.n + 1]
    /\ UNCHANGED svCache
    /\ UNCHANGED <<cbVars, thVars, rtVars, rfVars, appVars>>

\* getBothDirections / refreshBothDirections up to Promise.allSettled:
\* findNearest, the selection, and one per-stop call started per stop
startDirections(kind, mode, found) ==
    /\ svIdle
    /\ IF found.throws
       THEN svOp' = [kind |-> kind, pc |-> "done", selected |-> << >>, subs |-> << >>,
                     result |-> [NoResult EXCEPT !.success = FALSE,
                                                 !.error = "findNearest"],
                     n |-> svOp.n + 1]
       ELSE IF Len(found.bearings) = 0
       THEN svOp' = [kind |-> kind, pc |-> "done", selected |-> << >>, subs |-> << >>,
                     result |-> [NoResult EXCEPT !.success = FALSE,
                                                 !.error = "NO_STOPS_FOUND"],
                     n |-> svOp.n + 1]
       ELSE LET sel == stopsToShow([i \in 1..Len(found.bearings) |->
                                        [atcoCode |-> NearbyStopIds[i],
                                         bearing |-> found.bearings[i]]])
            IN  svOp' = [kind |-> kind, pc |-> "awaitAll", selected |-> sel,
                         subs |-> [i \in 1..Len(sel) |-> NewSub(sel[i], mode)],
                         result |-> NoResult, n |-> svOp.n + 1]
    /\ UNCHANGED svCache
    /\ UNCHANGED <<cbVars, thVars, rtVars, rfVars, appVars>>

getBothDirections(found) == startDirections("getBothDirections", "cacheFirst", found)

refreshBothDirections(found) == startDirections("refreshBothDirections", "fresh", found)

\* await BusStopCache.getDepartures(stop.atcoCode) settles
cacheReadSettles(i) ==
    /\ i \in DOMAIN svOp.subs
    /\ svOp.subs[i].pc = "readCache"
    /\ LET sub == svOp.subs[i]
           cached == cacheGetDepartures(svCache, sub.stop, now)
           read == [sub EXCEPT !.cached = cached]
       IN  svOp' = [svOp EXCEPT !.subs[i] =
                      IF isCacheHit(cached) THEN Fulfil(read, cached.departures, TRUE)
                      ELSE [read EXCEPT !.pc = "fetch"]]
    /\ UNCHANGED svCache
    /\ UNCHANGED <<cbVars, thVars, rtVars, rfVars, appVars>>

\* await fetchDeparturesForStop(stop, 3) settles
fetchSettles(i, ok, departures) ==
    /\ i \in DOMAIN svOp.subs
    /\ svOp.subs[i].pc = "fetch"
    /\ LET sub == svOp.subs[i]
       IN  svOp' = [svOp EXCEPT !.subs[i] =
                      IF ok THEN [sub EXCEPT !.fetchResult = "ok", !.fetched = departures,
                                             !.pc = "writeCache"]
                      ELSE onFetchPathError([sub EXCEPT !.fetchResult = "failed"],
                                            "fetch failed")]
    /\ UNCHANGED svCache
    /\ UNCHANGED <<cbVars, thVars, rtVars, rfVars, appVars>>

\* await BusStopCache.setDepartures(stop.atcoCode, departures) settles
cacheWriteSettles(i, ok) ==
    /\ i \in DOMAIN svOp.subs
    /\ svOp.subs[i].pc = "writeCache"
    /\ LET sub == svOp.subs[i]
       IN  IF ok
           THEN /\ svCache' = cacheSetDepartures(svCache, sub.stop, sub.fetched, now)
                /\ svOp' = [svOp EXCEPT !.subs[i] =
                              Fulfil([sub EXCEPT !.writeResult = "ok"], sub.fetched, FALSE)]
           ELSE /\ svOp' = [svOp EXCEPT !.subs[i] =
                              onFetchPathError([sub EXCEPT !.writeResult = "failed"],
                                               "cache write failed")]
                /\ UNCHANGED svCache
    /\ UNCHANGED <<cbVars, thVars, rtVars, rfVars, appVars>>

\* every per-stop call has settled: the caller resumes with the result
allSettledResumes ==
    /\ svOp.pc = "awaitAll"
    /\ \A i \in DOMAIN svOp.subs : svOp.subs[i].status # "pending"
    /\ svOp' = [svOp EXCEPT !.pc = "done",
                            !.result = resultOf(svOp.selected, svOp.subs)]
    /\ UNCHANGED svCache
    /\ UNCHANGED <<cbVars, thVars, rtVars, rfVars, appVars>>

\* time passes while the service runs
svTick ==
    /\ now + DEPARTURES_CACHE_TTL <= MaxSvTicks * DEPARTURES_CACHE_TTL
    /\ now' = now + DEPARTURES_CACHE_TTL
    /\ UNCHANGED <<circuitBreakers, cbInFlight, cbInvoked, cbLast, cbStreak>>
    /\ UNCHANGED <<thVars, rtVars, rfVars, svVars, appVars>>

----------------------------------------------------------------------------
(* TrainDepartureService (core/train-stations/service.ts), the train       *)
(* departures store (core/train-stations/cache.ts) and fetchTrainDepartures *)
(* (src/api/huxley.ts)                                                     *)

\* largest number of service calls explored
MaxTrOps == 2

\* how many times the clock is advanced while the train service runs, one
\* cache lifetime at a time
MaxTrTicks == 2

\* the two configured stations
TrainStations == {"CHM", "BPA"}

\* the station lists a caller passes: any list of distinct stations
StationLists ==
    {<< >>} \cup {<<a>> : a \in TrainStations}
            \cup {<<p[1], p[2]>> : p \in {q \in TrainStations \X TrainStations :
                                              q[1] # q[2]}}

\* config.trainStations.departuresCacheTtl
TRAIN_DEPARTURES_CACHE_TTL == 60000

\* fetchTrainDepartures with a catch block that passes the error on
fetchTrainDeparturesRethrows(upstream, services) ==
    [threw |-> upstream # "ok",
     departures |-> IF upstream = "ok" THEN services ELSE << >>]

\* fetchTrainDepartures: throws API_KEY_MISSING before the try block; inside
\* it, a response maps to its services (none gives []), and every error,
\* CircuitOpenError included, is caught and answered with []
fetchTrainDepartures(upstream, services) ==
    [threw |-> upstream = "keyMissing",
     departures |-> IF upstream = "ok" THEN services ELSE << >>]

\* the expiry test of TrainStationCache.getDepartures with >= for >
trainCacheExpiresAtTtl(cache, crsCode, outcome, t) ==
    IF outcome = "served" /\ crsCode \in DOMAIN cache
       /\ ~(t - cache[crsCode].timestamp >= TRAIN_DEPARTURES_CACHE_TTL)
    THEN [isNull |-> FALSE, departures |-> cache[crsCode].departures]
    ELSE Null

\* TrainStationCache.getDepartures when it resolves: the stored list, or null
\* when nothing is stored, the entry is older than the TTL, or the store
\* cannot be read
trainCacheGetDepartures(cache, crsCode, outcome, t) ==
    IF outcome = "served" /\ crsCode \in DOMAIN cache
       /\ ~(t - cache[crsCode].timestamp > TRAIN_DEPARTURES_CACHE_TTL)
    THEN [isNull |-> FALSE, departures |-> cache[crsCode].departures]
    ELSE Null

\* TrainStationCache.setDepartures: the record put under crsCode
trainCacheSetDepartures(cache, crsCode, departures, t) ==
    MapSet(cache, crsCode, [departures |-> departures, timestamp |-> t])

\* TrainDepartureResult
TrainSuccess(station, departures, isStale) ==
    [success |-> TRUE, station |-> station, departures |-> departures,
     isStale |-> isStale]

TrainFailure(station) ==
    [success |-> FALSE, station |-> station, departures |-> << >>, isStale |-> FALSE]

TrainFulfil(sub, value) == [sub EXCEPT !.pc = "done", !.status = "fulfilled",
                                       !.value = value]

IdleTrainOp == [kind |-> "none", pc |-> "idle", stations |-> << >>, subs |-> << >>,
                results |-> << >>, n |-> 0]

\* get/refreshDeparturesForAllStations up to Promise.allSettled: an empty
\* list returns [] at once, otherwise one per-station call starts per station
startAllStations(kind, mode, stations) ==
    /\ (trOp.pc \in {"idle", "done"} /\ trOp.n < MaxTrOps)
    /\ trOp' = IF Len(stations) = 0
               THEN [kind |-> kind, pc |-> "done", stations |-> stations,
                     subs |-> << >>, results |-> << >>, n |-> trOp.n + 1]
               ELSE [kind |-> kind, pc |-> "awaitAll", stations |-> stations,
                     \* one per-station call each: mode "cacheFirst" is
                     \* getDeparturesForStation, mode "refresh" is
                     \* refreshDeparturesForStation; readResult, upstream and
                     \* writeResult record what the call met
                     subs |-> [i \in 1..Len(stations) |->
                                [station |-> stations[i], mode |-> mode,
                                 pc |-> IF mode = "cacheFirst" THEN "readCache"
                                        ELSE "fetch",
                                 readResult |-> "none", cached |-> Null,
                                 upstream |-> "none", fetched |-> << >>,
                                 writeResult |-> "none", status |-> "pending",
                                 value |-> TrainFailure(stations[i])]],
                     results |-> << >>, n |-> trOp.n + 1]
    /\ UNCHANGED trCache
    /\ UNCHANGED <<cbVars, thVars, rtVars, rfVars, svVars, etaOp, fnOp, geoOp, uiState, selOp, renderOp>>

getDeparturesForAllStations(stations) ==
    startAllStations("getDeparturesForAllStations", "cacheFirst", stations)

refreshDeparturesForAllStations(stations) ==
    startAllStations("refreshDeparturesForAllStations", "refresh", stations)

\* await TrainStationCache.getDepartures(crsCode) settles
trainCacheReadSettles(i, outcome) ==
    /\ i \in DOMAIN trOp.subs
    /\ trOp.subs[i].pc = "readCache"
    /\ LET sub == trOp.subs[i]
           cached == trainCacheGetDepartures(trCache, sub.station, outcome, now)
           read == [sub EXCEPT !.readResult = outcome, !.cached = cached]
       IN  trOp' = [trOp EXCEPT !.subs[i] =
                      IF outcome = "throws"
                      THEN TrainFulfil([read EXCEPT !.cached = Null],
                                       TrainFailure(sub.station))
                      ELSE IF ~cached.isNull
                      THEN TrainFulfil(read, TrainSuccess(sub.station, cached.departures, TRUE))
                      ELSE [read EXCEPT !.pc = "fetch"]]
    /\ UNCHANGED trCache
    /\ UNCHANGED <<cbVars, thVars, rtVars, rfVars, svVars, etaOp, fnOp, geoOp, uiState, selOp, renderOp>>

\* await fetchTrainDepartures(crsCode) settles
trainFetchSettles(i, upstream, services) ==
    /\ i \in DOMAIN trOp.subs
    /\ trOp.subs[i].pc = "fetch"
    /\ upstream # "ok" => services = << >>
    /\ LET sub == [trOp.subs[i] EXCEPT !.upstream = upstream]
           got == fetchTrainDepartures(upstream, services)
       IN  trOp' = [trOp EXCEPT !.subs[i] =
                      IF got.threw THEN TrainFulfil(sub, TrainFailure(sub.station))
                      ELSE [sub EXCEPT !.fetched = got.departures, !.pc = "writeCache"]]
    /\ UNCHANGED trCache
    /\ UNCHANGED <<cbVars, thVars, rtVars, rfVars, svVars, etaOp, fnOp, geoOp, uiState, selOp, renderOp>>

\* await TrainStationCache.setDepartures(crsCode, departures) settles
trainCacheWriteSettles(i, outcome) ==
    /\ i \in DOMAIN trOp.subs
    /\ trOp.subs[i].pc = "writeCache"
    /\ LET sub == [trOp.subs[i] EXCEPT !.writeResult = outcome]
       IN  /\ trCache' = IF outcome = "stored"
                         THEN trainCacheSetDepartures(trCache, sub.station, sub.fetched, now)
                         ELSE trCache
           /\ trOp' = [trOp EXCEPT !.subs[i] =
                         IF outcome = "putError"
                         THEN TrainFulfil(sub, TrainFailure(sub.station))
                         ELSE TrainFulfil(sub, TrainSuccess(sub.station, sub.fetched, FALSE))]
    /\ UNCHANGED <<cbVars, thVars, rtVars, rfVars, svVars, etaOp, fnOp, geoOp, uiState, selOp, renderOp>>

\* every per-station call has settled: the caller resumes with results.map
trainAllSettledResumes ==
    /\ trOp.pc = "awaitAll"
    /\ \A i \in DOMAIN trOp.subs : trOp.subs[i].status # "pending"
    /\ trOp' = [trOp EXCEPT !.pc = "done",
                            \* results.map((result, index) => ...): a
                            \* fulfilled call gives its value, a rejected
                            \* one a failure result for stations[index]
                            !.results =
                                [i \in 1..Len(trOp.subs) |->
                                    IF trOp.subs[i].status = "fulfilled"
                                    THEN trOp.subs[i].value
                                    ELSE TrainFailure(trOp.stations[i])]]
    /\ UNCHANGED trCache
    /\ UNCHANGED <<cbVars, thVars, rtVars, rfVars, svVars, etaOp, fnOp, geoOp, uiState, selOp, renderOp>>

\* time passes while the train service runs
trTick ==
    /\ now + TRAIN_DEPARTURES_CACHE_TTL <= MaxTrTicks * TRAIN_DEPARTURES_CACHE_TTL
    /\ now' = now + TRAIN_DEPARTURES_CACHE_TTL
    /\ UNCHANGED <<circuitBreakers, cbInFlight, cbInvoked, cbLast, cbStreak>>
    /\ UNCHANGED <<thVars, rtVars, rfVars, svVars, appVars>>

----------------------------------------------------------------------------
(* ETA calculator: src/core/bus-stops/eta-calculator.ts, with the timetable *)
(* client src/api/bods-gtfs.ts                                             *)

\* largest number of calculateDepartures calls explored
MaxEtaOps == 1

\* largest number of vehicles the live feed reports near the stop
MaxVehicles == 2

\* the values of the limit parameter explored
Limits == {1, 2}

\* bus lines (already normalised)
Lines == {"A", "B"}

\* AVERAGE_BUS_SPEED_MPS
AVERAGE_BUS_SPEED_MPS == 8

\* the proximity bound of findMatchingVehicle
MATCH_RANGE_METERS == 3000

\* the rows getScheduledDepartures(stop.atcoCode, limit * 2) can resolve to:
\* at most limit * 2 rows, sorted by departure time
ScheduledRows(limit) ==
    \* minutes until the scheduled departure of a timetable row
    {rows \in UNION {[1..n -> [line : Lines, minutes : {3, 9}]] :
                        n \in 0..(limit * 2)} :
        \A i \in 1..(Len(rows) - 1) : rows[i].minutes <= rows[i + 1].minutes}

\* Math.round((eta.getTime() - Date.now()) / 60000) for the eta of
\* calculateETAFromVehicle, Date.now() + distance / AVERAGE_BUS_SPEED_MPS
\* seconds: round(distance / 480)
minutesFromVehicle(vehicle) ==
    (2 * vehicle.distance + 60 * AVERAGE_BUS_SPEED_MPS)
        \div (2 * 60 * AVERAGE_BUS_SPEED_MPS)

\* findMatchingVehicle: the positions in the feed of the vehicles on the
\* row's line that are less than 3000 m away; the first one is the match
matchingVehicles(scheduled, vehicles) ==
    {j \in DOMAIN vehicles : /\ vehicles[j].line = scheduled.line
                             /\ vehicles[j].distance < MATCH_RANGE_METERS}

Smallest(S) == CHOOSE x \in S : \A y \in S : x <= y

\* the Departure built for one timetable row (eta-calculator.ts:56-87)
departureOf(scheduled, vehicles) ==
    IF matchingVehicles(scheduled, vehicles) # {}
    THEN [line |-> scheduled.line,
          minutesUntil |->
              minutesFromVehicle(vehicles[Smallest(matchingVehicles(scheduled, vehicles))]),
          status |-> "on-time", isRealTime |-> TRUE]
    ELSE [line |-> scheduled.line,
          minutesUntil |-> IF scheduled.minutes < 0 THEN 0 ELSE scheduled.minutes,
          status |-> "scheduled", isRealTime |-> FALSE]

\* an unmatched row that left more than 2 minutes ago is skipped
isSkipped(scheduled, vehicles) ==
    matchingVehicles(scheduled, vehicles) = {} /\ scheduled.minutes < -2

\* insert d into the sorted list after every element that is not later
RECURSIVE insertByMinutes(_, _)
insertByMinutes(sorted, d) ==
    IF sorted = << >> THEN <<d>>
    ELSE IF d.minutesUntil < Head(sorted).minutesUntil THEN <<d>> \o sorted
    ELSE <<Head(sorted)>> \o insertByMinutes(Tail(sorted), d)

\* departures.sort((a, b) => a.minutesUntil - b.minutesUntil): a stable sort
RECURSIVE sortByMinutes(_)
sortByMinutes(departures) ==
    IF departures = << >> THEN << >>
    ELSE insertByMinutes(sortByMinutes(SubSeq(departures, 1, Len(departures) - 1)),
                         departures[Len(departures)])

\* slice(0, limit)
slice(seq, limit) == SubSeq(seq, 1, Min(limit, Len(seq)))

\* the loop over the timetable rows (eta-calculator.ts:52-90): a skipped row
\* continues, and the loop is left once limit departures have been pushed
RECURSIVE combine(_, _, _, _)
combine(rows, vehicles, limit, acc) ==
    IF rows = << >> THEN acc
    ELSE IF isSkipped(Head(rows), vehicles)
         THEN combine(Tail(rows), vehicles, limit, acc)
         ELSE IF Len(acc) + 1 >= limit
              THEN Append(acc, departureOf(Head(rows), vehicles))
              ELSE combine(Tail(rows), vehicles, limit,
                           Append(acc, departureOf(Head(rows), vehicles)))

\* vehiclesByLine: per line, in order of first appearance, the position of
\* the vehicle that is kept: the first among the nearest of that line
nearestOfLine(vehicles, line) ==
    Smallest({j \in DOMAIN vehicles :
                /\ vehicles[j].line = line
                /\ \A k \in DOMAIN vehicles :
                      vehicles[k].line = line =>
                          vehicles[j].distance <= vehicles[k].distance})

\* the Departure built for one line of vehiclesByLine
liveDeparture(vehicles, line) ==
    [line |-> line,
     minutesUntil |-> minutesFromVehicle(vehicles[nearestOfLine(vehicles, line)]),
     status |-> "on-time", isRealTime |-> TRUE]

\* getRealTimeOnlyDepartures when fetchVehiclesNear resolves
liveOnlyDepartures(vehicles, limit) ==
    LET firsts == SelectSeq([j \in DOMAIN vehicles |-> j],
                            LAMBDA j : \A k \in 1..(j - 1) :
                                           vehicles[k].line # vehicles[j].line)
        built == [i \in 1..Len(firsts) |-> liveDeparture(vehicles, vehicles[firsts[i]].line)]
    IN  slice(sortByMinutes(built), limit)

\* the catch block of getRealTimeOnlyDepartures rethrowing
getRealTimeOnlyDeparturesRethrows(ok, vehicles, limit) ==
    IF ok THEN [kind |-> "returned", departures |-> liveOnlyDepartures(vehicles, limit)]
    ELSE [kind |-> "rejected", departures |-> << >>]

\* getRealTimeOnlyDepartures: a failed live feed gives []
getRealTimeOnlyDepartures(ok, vehicles, limit) ==
    IF ok THEN [kind |-> "returned", departures |-> liveOnlyDepartures(vehicles, limit)]
    ELSE [kind |-> "returned", departures |-> << >>]

IdleEtaOp == [pc |-> "idle", limit |-> 0, gtfsAvailable |-> FALSE, loadFailed |-> FALSE,
              scheduled |-> << >>, vehiclesFailed |-> FALSE, vehicles |-> << >>,
              outcome |-> "pending", departures |-> << >>, n |-> 0]

\* calculateDepartures(stop, limit) up to await isGTFSDataAvailable()
calculateDepartures(limit) ==
    /\ etaOp.pc \in {"idle", "done"}
    /\ etaOp.n < MaxEtaOps
    /\ etaOp' = [IdleEtaOp EXCEPT !.pc = "probe", !.limit = limit, !.n = etaOp.n + 1]
    /\ UNCHANGED <<cbVars, thVars, rtVars, rfVars, svVars, trVars, fnOp, geoOp, uiState, selOp, renderOp>>

\* await isGTFSDataAvailable() settles: never rejects; when it reports
\* unavailable the timetable is not loaded and the live-only path starts
isGTFSDataAvailableSettles(available) ==
    /\ etaOp.pc = "probe"
    /\ etaOp' = [etaOp EXCEPT !.gtfsAvailable = available,
                              !.pc = IF available THEN "load" ELSE "liveOnly"]
    /\ UNCHANGED <<cbVars, thVars, rtVars, rfVars, svVars, trVars, fnOp, geoOp, uiState, selOp, renderOp>>

\* await getScheduledDepartures(stop.atcoCode, limit * 2) settles: it rejects
\* when loadGTFSData rejects (the await is not inside a try)
getScheduledDeparturesSettles(ok, rows) ==
    /\ etaOp.pc = "load"
    /\ rows \in ScheduledRows(etaOp.limit)
    /\ ~ok => rows = << >>
    /\ etaOp' = IF ~ok
                THEN [etaOp EXCEPT !.loadFailed = TRUE, !.pc = "done",
                                   !.outcome = "rejected"]
                ELSE [etaOp EXCEPT !.scheduled = rows,
                                   !.pc = IF Len(rows) = 0 THEN "liveOnly" ELSE "live"]
    /\ UNCHANGED <<cbVars, thVars, rtVars, rfVars, svVars, trVars, fnOp, geoOp, uiState, selOp, renderOp>>

\* await fetchVehiclesNear(stopCoords) settles, in getRealTimeOnlyDepartures
\* or in the timetable path, and the call runs to its return
fetchVehiclesNearSettles(ok, vehicles) ==
    /\ etaOp.pc \in {"liveOnly", "live"}
    /\ ~ok => vehicles = << >>
    /\ LET seen == [etaOp EXCEPT !.vehiclesFailed = ~ok, !.vehicles = vehicles,
                                 !.pc = "done"]
           live == getRealTimeOnlyDepartures(ok, vehicles, etaOp.limit)
       IN  etaOp' = IF etaOp.pc = "liveOnly"
                    THEN [seen EXCEPT !.outcome = live.kind,
                                      !.departures = live.departures]
                    ELSE [seen EXCEPT !.outcome = "returned",
                                      !.departures =
                                          \* the timetable path, the vehicles known
                                          \* or [] when they could not be fetched
                                          slice(sortByMinutes(
                                                    combine(etaOp.scheduled, vehicles,
                                                            etaOp.limit, << >>)),
                                                etaOp.limit)]
    /\ UNCHANGED <<cbVars, thVars, rtVars, rfVars, svVars, trVars, fnOp, geoOp, uiState, selOp, renderOp>>

----------------------------------------------------------------------------
(* BusStopService.findNearest: src/core/bus-stops/service.ts *)

\* largest number of stops in the dataset
MaxStops == 3

\* largest maxResults passed (the callers pass positive constants)
MaxResultsBound == 3

\* config.busStops.maxSearchRadius
MAX_SEARCH_RADIUS == 1000

\* the radius filter with < for <=
withinRadiusStrict(stop) == stop.distanceMeters < MAX_SEARCH_RADIUS

\* .filter(stop => stop.distanceMeters <= maxRadius)
withinRadius(stop) == stop.distanceMeters <= MAX_SEARCH_RADIUS

RECURSIVE insertByDistance(_, _)
insertByDistance(sorted, stop) ==
    IF sorted = << >> THEN <<stop>>
    ELSE IF stop.distanceMeters < Head(sorted).distanceMeters THEN <<stop>> \o sorted
    ELSE <<Head(sorted)>> \o insertByDistance(Tail(sorted), stop)

\* .sort((a, b) => a.distanceMeters - b.distanceMeters): a stable sort
RECURSIVE sortByDistance(_)
sortByDistance(stops) ==
    IF stops = << >> THEN << >>
    ELSE insertByDistance(sortByDistance(SubSeq(stops, 1, Len(stops) - 1)),
                          stops[Len(stops)])

\* the chain of findNearest: map, filter, sort, slice(0, maxResults)
nearbyStopsOf(stops, maxResults) ==
    slice(sortByDistance(SelectSeq([i \in DOMAIN stops |->
                                       [atcoCode |-> i, distanceMeters |-> stops[i]]],
                                   withinRadius)), maxResults)

IdleFnOp == [pc |-> "idle", maxResults |-> 0, isNull |-> FALSE, stops |-> << >>,
             outcome |-> "pending", nearby |-> << >>]

\* findNearest(location, maxResults) up to await BusStopCache.getStops()
findNearest(maxResults) ==
    /\ fnOp.pc \in {"idle", "done"}
    /\ fnOp' = [IdleFnOp EXCEPT !.pc = "getStops", !.maxResults = maxResults]
    /\ UNCHANGED <<cbVars, thVars, rtVars, rfVars, svVars, trVars, etaOp, geoOp, uiState, selOp, renderOp>>

\* getStops resolves and findNearest runs to its end: it throws
\* NO_STOPS_FOUND for a missing or empty dataset and for an empty selection
getStopsSettles(dataset) ==
    /\ fnOp.pc = "getStops"
    /\ LET nearby == nearbyStopsOf(dataset.stops, fnOp.maxResults)
           got == [fnOp EXCEPT !.pc = "done", !.isNull = dataset.isNull,
                               !.stops = dataset.stops]
       IN  fnOp' = IF dataset.isNull \/ Len(dataset.stops) = 0 \/ Len(nearby) = 0
                   THEN [got EXCEPT !.outcome = "NO_STOPS_FOUND"]
                   ELSE [got EXCEPT !.outcome = "returned", !.nearby = nearby]
    /\ UNCHANGED <<cbVars, thVars, rtVars, rfVars, svVars, trVars, etaOp, geoOp, uiState, selOp, renderOp>>

----------------------------------------------------------------------------
(* geocodePostcode: src/api/geocoding.ts, on top of retryWithBackoff *)

\* largest number of geocodePostcode calls explored
MaxGeoOps == 1

\* retryWithBackoff(fn, 3, 500)
GEOCODE_MAX_ATTEMPTS == 3
GEOCODE_INITIAL_DELAY == 500

\* what the retried function does for each answer of the endpoint: a 2xx
\* answer resolves with the body (carrying a result, or none), a 404 throws
\* GeolocationError(POSTCODE_NOT_FOUND), another status throws a plain
\* Error, and a failed fetch rejects with an Error
Found == [type |-> "value", message |-> "result"]
NotFound404 == [type |-> "Error", message |-> "POSTCODE_NOT_FOUND"]
IdleGeoOp == [pc |-> "idle", valid |-> TRUE, outcome |-> "pending", n |-> 0]

\* geocodePostcode(postcode): a postcode of invalid format throws
\* POSTCODE_NOT_FOUND at once; otherwise retryWithBackoff is called
geocodePostcode(valid, script) ==
    /\ geoOp.pc \in {"idle", "done"}
    /\ geoOp.n < MaxGeoOps
    /\ rtPc \in {"idle", "done"}
    /\ IF ~valid
       THEN /\ geoOp' = [pc |-> "done", valid |-> FALSE,
                         outcome |-> "POSTCODE_NOT_FOUND", n |-> geoOp.n + 1]
            /\ rtScript' = << >>
            /\ rtPc' = "idle"
       ELSE /\ geoOp' = [pc |-> "retrying", valid |-> TRUE, outcome |-> "pending",
                         n |-> geoOp.n + 1]
            /\ rtScript' = script
            /\ rtPc' = "start"
    /\ rtMaxAttempts' = GEOCODE_MAX_ATTEMPTS
    /\ rtInitialDelay' = GEOCODE_INITIAL_DELAY
    /\ rtAttempt' = 0
    /\ rtLastError' = NoValue
    /\ rtInvocations' = 0
    /\ rtOutcome' = [kind |-> "pending", value |-> NoValue]
    /\ rtDelays' = << >>
    /\ UNCHANGED <<cbVars, thVars, rfVars, svVars, trVars, etaOp, fnOp, uiState, selOp, renderOp>>

\* await retryWithBackoff(...) settles and geocodePostcode runs to its end:
\* a body without result throws POSTCODE_NOT_FOUND, a GeolocationError is
\* rethrown, any other error becomes NETWORK_ERROR
geocodeResumes ==
    /\ geoOp.pc = "retrying"
    /\ rtPc = "done"
    /\ geoOp' = [geoOp EXCEPT
                   !.pc = "done",
                   !.outcome =
                       IF rtOutcome.kind = "returned"
                       THEN IF rtOutcome.value = Found THEN "returned"
                            ELSE "POSTCODE_NOT_FOUND"
                       ELSE IF rtOutcome.value = NotFound404 THEN "POSTCODE_NOT_FOUND"
                            ELSE "NETWORK_ERROR"]
    /\ UNCHANGED <<cbVars, thVars, rtVars, rfVars, svVars, trVars, etaOp, fnOp, uiState, selOp, renderOp>>

----------------------------------------------------------------------------
(* Progressive search: src/core/app-state.ts, handleShowMore and            *)
(* handleRefresh of src/ui/event-handlers.ts, displayItems of ui/render.ts  *)

\* largest number of handler runs (refreshes and expansions) explored
MaxUiOps == 5

\* config.busStops
MAX_EXPANDED_RADIUS == 3000
RADIUS_INCREMENT == 500

StopDistance == [s \in {"s1", "s2", "s3", "s4"} |->
                    CASE s = "s1" -> 800 [] s = "s2" -> 1400 [] s = "s3" -> 1900
                      [] s = "s4" -> 2400]

\* the identifiers in a list of codes
CodesOf(codes) == {codes[i] : i \in DOMAIN codes}

\* the stops of S, nearest first
\* the stops of the dataset, nearest first, and their distance from the user
\* in metres
NearestFirst(S) == SelectSeq(<<"s1", "s2", "s3", "s4">>, LAMBDA s : s \in S)

\* the stops within radius that are not excluded
newStopsWithin(excludeIds, radius) ==
    {s \in DOMAIN StopDistance : StopDistance[s] <= radius /\ s \notin excludeIds}

\* getExpandedStops(location, excludeIds, currentRadius): widen the radius by
\* the increment until stops not yet shown appear or the maximum is reached
RECURSIVE getExpandedStops(_, _)
getExpandedStops(excludeIds, currentRadius) ==
    LET radius == Min(currentRadius + RADIUS_INCREMENT, MAX_EXPANDED_RADIUS)
    IN  IF newStopsWithin(excludeIds, radius) # {} \/ radius >= MAX_EXPANDED_RADIUS
        THEN [stops |-> NearestFirst(newStopsWithin(excludeIds, radius)),
              actualRadius |-> radius]
        ELSE getExpandedStops(excludeIds, radius)

\* the state of app-state.ts, with the handlers under way: the position of
\* the show-more handler (pc) and what it holds in its local variables
\* (result is what its getExpandedStops call, made with the radius and the
\* codes read before the await, will resolve with; startGen is the number of
\* refreshes started when the button was clicked), the refreshes in flight
\* (refreshing, each named by its number in order of start), whether the
\* show-more button is in the page, and as history the stops returned by the
\* expansions completed since the last refresh started, the number of
\* refreshes started (gen), the latest refresh that has rendered (rendered)
\* and the handler that took the last step (last)
IdleUi == [pc |-> "idle", displayedAtcoCodes |-> << >>, allDisplayItems |-> << >>,
           currentSearchRadius |-> MAX_SEARCH_RADIUS, hasReachedMaxRadius |-> FALSE,
           showMoreBtn |-> FALSE, resultStops |-> << >>, expanded |-> {}, n |-> 0,
           result |-> [stops |-> << >>, actualRadius |-> 0], startGen |-> 0,
           refreshing |-> {}, gen |-> 0, rendered |-> 0,
           last |-> [kind |-> "none", gen |-> 0]]

\* displayItems(items, hasMoreStops, cb): renders, then records the stop
\* codes of the bus items as displayed and keeps the items
displayItems(st, items, hasMoreStops) ==
    [st EXCEPT !.showMoreBtn = hasMoreStops /\ ~st.hasReachedMaxRadius,
               !.displayedAtcoCodes = items,
               !.allDisplayItems = items]

\* handleRefresh up to its await: resetProgressiveExpansion.  The button's
\* click handler and the 60 s interval timer of init both call it, whatever
\* handler is under way
handleRefresh ==
    /\ uiState.n < MaxUiOps
    /\ uiState' = [uiState EXCEPT !.refreshing = @ \cup {uiState.gen + 1},
                                  !.gen = @ + 1,
                                  !.currentSearchRadius = MAX_SEARCH_RADIUS,
                                  !.hasReachedMaxRadius = FALSE,
                                  !.expanded = {},
                                  !.last = [kind |-> "refresh", gen |-> uiState.gen + 1],
                                  !.n = @ + 1]
    /\ UNCHANGED <<cbVars, thVars, rtVars, rfVars, svVars, trVars, etaOp, fnOp, geoOp, selOp, renderOp>>

\* the boards of refresh g arrive: the nearby boards (when the bus result
\* succeeded) are displayed with the show-more button; without them the
\* error card (or the trains alone) is shown, without the button
refreshSettles(g, success) ==
    /\ g \in uiState.refreshing
    /\ LET st == [uiState EXCEPT !.refreshing = @ \ {g},
                                 !.rendered = IF g > @ THEN g ELSE @,
                                 !.last = [kind |-> "refreshSettled", gen |-> g]]
       IN  uiState' =
              IF success
              THEN displayItems(st, NearestFirst(newStopsWithin({}, MAX_SEARCH_RADIUS)), TRUE)
              ELSE displayItems(st, << >>, FALSE)
    /\ UNCHANGED <<cbVars, thVars, rtVars, rfVars, svVars, trVars, etaOp, fnOp, geoOp, selOp, renderOp>>

\* handleShowMore up to await getExpandedStops: a click on the button while
\* the maximum radius has not been reached; the call is made with the
\* displayed codes and the radius as they are now
handleShowMore ==
    /\ uiState.pc = "idle"
    /\ uiState.n < MaxUiOps
    /\ uiState.showMoreBtn
    /\ ~uiState.hasReachedMaxRadius
    /\ uiState' = [uiState EXCEPT
                     !.pc = "expanding",
                     !.result = getExpandedStops(CodesOf(uiState.displayedAtcoCodes),
                                                 uiState.currentSearchRadius),
                     !.startGen = uiState.gen,
                     !.last = [kind |-> "showMore", gen |-> uiState.gen],
                     !.n = @ + 1]
    /\ UNCHANGED <<cbVars, thVars, rtVars, rfVars, svVars, trVars, etaOp, fnOp, geoOp, selOp, renderOp>>

\* await getExpandedStops(userLocation, displayedAtcoCodes, currentRadius)
\* settles: a rejection goes to the catch block; otherwise the radius and
\* the max-radius flag are updated and, when no stop was found, the list is
\* rendered again (or the button removed) and the handler returns
getExpandedStopsSettles(ok) ==
    /\ uiState.pc = "expanding"
    /\ LET result == uiState.result
           acted == [uiState EXCEPT
                       !.last = [kind |-> "expanded", gen |-> uiState.startGen]]
           moved == [acted EXCEPT
                       !.currentSearchRadius = result.actualRadius,
                       !.hasReachedMaxRadius =
                           @ \/ result.actualRadius >= MAX_EXPANDED_RADIUS]
       IN  uiState' =
              IF ~ok THEN [acted EXCEPT !.pc = "idle"]
              ELSE IF Len(result.stops) = 0
              THEN IF moved.hasReachedMaxRadius
                   THEN [moved EXCEPT !.pc = "idle", !.showMoreBtn = FALSE]
                   ELSE displayItems([moved EXCEPT !.pc = "idle"],
                                     moved.allDisplayItems, TRUE)
              ELSE [moved EXCEPT !.pc = "fetching", !.resultStops = result.stops]
    /\ UNCHANGED <<cbVars, thVars, rtVars, rfVars, svVars, trVars, etaOp, fnOp, geoOp, selOp, renderOp>>

\* await Promise.all(result.stops.map(getDeparturesForStop)) settles and
\* handleShowMore runs to its end: the boards with departures become items,
\* the codes of all returned stops are added to the displayed codes, the
\* items are added and the list is rendered again.  withDepartures is the set
\* of returned stops whose board has departures.
additionalBoardsSettle(ok, withDepartures) ==
    /\ uiState.pc = "fetching"
    /\ withDepartures \subseteq CodesOf(uiState.resultStops)
    /\ ~ok => withDepartures = {}
    /\ LET newItems == SelectSeq(uiState.resultStops, LAMBDA s : s \in withDepartures)
           acted == [uiState EXCEPT
                       !.pc = "idle",
                       !.resultStops = << >>,
                       !.last = [kind |-> "boards", gen |-> uiState.startGen]]
           added == [acted EXCEPT
                       !.displayedAtcoCodes = @ \o uiState.resultStops,
                       !.allDisplayItems = @ \o newItems,
                       !.expanded = @ \cup CodesOf(uiState.resultStops)]
       IN  uiState' =
              IF ~ok THEN acted
              ELSE displayItems(added, added.allDisplayItems, ~added.hasReachedMaxRadius)
    /\ UNCHANGED <<cbVars, thVars, rtVars, rfVars, svVars, trVars, etaOp, fnOp, geoOp, selOp, renderOp>>

----------------------------------------------------------------------------
(* The stop selection of getBothDirections and refreshBothDirections on    *)
(* its own: src/core/bus-stops/service.ts                                  *)

\* most stops findNearest returns to a selection
MaxNearby == 4

\* nearbyStops has come back from findNearest with at least one stop, each
\* stop named by its position (nearest first), and stopsToShow is built.  The
\* selection depends on nearbyStops alone, so one call per behaviour shows
\* every case
selectStopsToShow(bearings) ==
    /\ selOp.nearby = << >>
    /\ LET nearbyStops == [i \in DOMAIN bearings |->
                             [atcoCode |-> i, bearing |-> bearings[i]]]
       IN  selOp' = [nearby |-> nearbyStops, selected |-> stopsToShow(nearbyStops)]
    /\ UNCHANGED <<cbVars, thVars, rtVars, rfVars, svVars>>
    /\ UNCHANGED <<trVars, etaOp, fnOp, geoOp, uiState, renderOp>>

----------------------------------------------------------------------------
(* The render order of displayItems: ui/render.ts (src/unnamed/part_015)   *)

\* most items handed to one displayItems call
MaxItems == 3

\* the compare function with favorites always first
compareItemsFavoritesFirst(a, b, nearbyThreshold) ==
    IF a.isFav = b.isFav THEN a.distance - b.distance
    ELSE IF a.isFav THEN -1
    ELSE 1

\* the compare function handed to sort: negative when a goes before b.  An
\* item is its favorite status and getItemDistance(item)
compareItems(a, b, nearbyThreshold) ==
    LET aIsNearby == a.distance <= nearbyThreshold
        bIsNearby == b.distance <= nearbyThreshold
    IN  IF a.isFav = b.isFav THEN a.distance - b.distance
        ELSE IF ~a.isFav /\ aIsNearby /\ ~bIsNearby THEN -1
        ELSE IF ~b.isFav /\ bIsNearby /\ ~aIsNearby THEN 1
        ELSE IF a.isFav THEN -1
        ELSE 1

\* [...items].sort(compare): Array.prototype.sort is stable, so an item's
\* place is the number of items that compare before it or compare equal and
\* stand before it
sortItems(items, nearbyThreshold) ==
    LET place(i) ==
            1 + Cardinality({j \in DOMAIN items :
                    \/ compareItems(items[j], items[i], nearbyThreshold) < 0
                    \/ /\ compareItems(items[j], items[i], nearbyThreshold) = 0
                       /\ j < i})
    IN  [k \in DOMAIN items |-> items[CHOOSE i \in DOMAIN items : place(i) = k]]

\* displayItems sorts the items it was given and renders them in that order;
\* nearbyThreshold is config.busStops.nearbyPriorityRadius.  The order
\* depends on the arguments alone, so one call per behaviour shows every case
renderItems(items, nearbyThreshold) ==
    /\ renderOp.items = << >>
    /\ renderOp' = [items |-> items, nearbyThreshold |-> nearbyThreshold,
                    sorted |-> sortItems(items, nearbyThreshold)]
    /\ UNCHANGED <<cbVars, thVars, rtVars, rfVars, svVars>>
    /\ UNCHANGED <<trVars, etaOp, fnOp, geoOp, uiState, selOp>>

----------------------------------------------------------------------------
(* Specifications *)

NextCB ==
    \/ \E k \in CircuitKeys : withCircuitBreaker(k)
    \/ \E k \in CircuitKeys, a \in AdmitStates : fnResolved(k, a)
    \/ \E k \in CircuitKeys, a \in AdmitStates : fnRejected(k, a)
    \/ \E k \in CircuitKeys : resetCircuitBreaker(k)
    \/ Tick

\* the modules as loaded: no circuit exists, the throttle has its default
\* configuration, the caches are empty and no operation has started
Init ==
    /\ circuitBreakers = EmptyMap
    /\ now = 0
    /\ cbInFlight = [c \in CircuitKeys \X AdmitStates |-> 0]
    /\ cbInvoked = [k \in CircuitKeys |-> 0]
    /\ cbLast = NoEvent
    /\ cbStreak = [k \in CircuitKeys |-> 0]
    /\ throttleState = EmptyThrottle
    /\ currentConfig = DEFAULT_THROTTLE_CONFIG
    /\ thReqs = << >>
    /\ thCallers = << >>
    /\ rtScript = << >>
    /\ rtMaxAttempts = 0
    /\ rtInitialDelay = 0
    /\ rtPc = "idle"
    /\ rtAttempt = 0
    /\ rtLastError = NoValue
    /\ rtInvocations = 0
    /\ rtOutcome = [kind |-> "pending", value |-> NoValue]
    /\ rtDelays = << >>
    /\ rfCalls = << >>
    /\ svCache = EmptyMap
    /\ svOp = IdleOp
    /\ trCache = EmptyMap
    /\ trOp = IdleTrainOp
    /\ etaOp = IdleEtaOp
    /\ fnOp = IdleFnOp
    /\ geoOp = IdleGeoOp
    /\ uiState = IdleUi
    /\ selOp = [nearby |-> << >>, selected |-> << >>]
    /\ renderOp = [items |-> << >>, nearbyThreshold |-> 0, sorted |-> << >>]

SpecCB == Init /\ [][NextCB]_vars

NextTh ==
    \/ \E k \in ThrottleKeys, f \in FnKinds : throttledRequest(k, f)
    \/ \E r \in 1..MaxThCalls, ok \in BOOLEAN : fnSettles(r, ok)
    \/ \E r \in 1..MaxThCalls : executeRequestResumes(r)

\* the throttle is empty and has been configured (as the tests and the
\* application do before using it)
InitTh ==
    /\ circuitBreakers = EmptyMap
    /\ now = 0
    /\ cbInFlight = [c \in CircuitKeys \X AdmitStates |-> 0]
    /\ cbInvoked = [k \in CircuitKeys |-> 0]
    /\ cbLast = NoEvent
    /\ cbStreak = [k \in CircuitKeys |-> 0]
    /\ throttleState = EmptyThrottle
    /\ currentConfig \in ThrottleConfigs
    /\ thReqs = << >>
    /\ thCallers = << >>
    /\ rtScript = << >>
    /\ rtMaxAttempts = 0
    /\ rtInitialDelay = 0
    /\ rtPc = "idle"
    /\ rtAttempt = 0
    /\ rtLastError = NoValue
    /\ rtInvocations = 0
    /\ rtOutcome = [kind |-> "pending", value |-> NoValue]
    /\ rtDelays = << >>
    /\ rfCalls = << >>
    /\ svCache = EmptyMap
    /\ svOp = IdleOp
    /\ trCache = EmptyMap
    /\ trOp = IdleTrainOp
    /\ etaOp = IdleEtaOp
    /\ fnOp = IdleFnOp
    /\ geoOp = IdleGeoOp
    /\ uiState = IdleUi
    /\ selOp = [nearby |-> << >>, selected |-> << >>]
    /\ renderOp = [items |-> << >>, nearbyThreshold |-> 0, sorted |-> << >>]

SpecTh == InitTh /\ [][NextTh]_vars

\* largest number of throttledRequest calls explored under fairness
MaxFairCalls == 2

\* the throttle with resetThrottle, every started operation completing and
\* every settled operation's executeRequest resuming
NextThFair ==
    \/ \E k \in ThrottleKeys, f \in FnKinds :
          Len(thCallers) < MaxFairCalls /\ throttledRequest(k, f)
    \/ \E r \in 1..MaxFairCalls, ok \in BOOLEAN : fnSettles(r, ok)
    \/ \E r \in 1..MaxFairCalls : executeRequestResumes(r)
    \/ resetThrottle

\* a pending promise returned by fn settles (the claim's proviso), and the
\* event loop runs the continuation of a settled await
FairnessTh ==
    \A r \in 1..MaxFairCalls :
        /\ WF_vars(\E ok \in BOOLEAN : fnSettles(r, ok))
        /\ WF_vars(executeRequestResumes(r))

SpecThFair == InitTh /\ [][NextThFair]_vars /\ FairnessTh

\* the throttle with reconfiguration and reset while calls are under way
NextThAdmin ==
    \/ NextThFair
    \/ \E c \in ThrottleConfigs : configureThrottle(c)

SpecThAdmin == InitTh /\ [][NextThAdmin]_vars

NextRt ==
    \/ retryStart
    \/ retryFnSettles
    \/ retryTimerFires

\* retryWithBackoff is about to be called with some fn, maxAttempts >= 1 and
\* initialDelay
InitRt ==
    /\ circuitBreakers = EmptyMap
    /\ now = 0
    /\ cbInFlight = [c \in CircuitKeys \X AdmitStates |-> 0]
    /\ cbInvoked = [k \in CircuitKeys |-> 0]
    /\ cbLast = NoEvent
    /\ cbStreak = [k \in CircuitKeys |-> 0]
    /\ throttleState = EmptyThrottle
    /\ currentConfig = DEFAULT_THROTTLE_CONFIG
    /\ thReqs = << >>
    /\ thCallers = << >>
    \* what an invocation of fn can do: resolve with a value, reject with an
    \* Error instance, or reject with something that is not an Error
    /\ rtScript \in [1..MaxAttemptsBound -> {[type |-> "value", message |-> "v1"],
                                              [type |-> "Error", message |-> "e1"],
                                              [type |-> "Error", message |-> "e2"],
                                              [type |-> "string", message |-> "s1"]}]
    /\ rtMaxAttempts \in 1..MaxAttemptsBound
    \* initial delays: two whose backoff stays below the 10000 ms cap within
    \* MaxAttemptsBound attempts and one whose second wait reaches it
    /\ rtInitialDelay \in {1000, 4000, 8000}
    /\ rtPc = "start"
    /\ rtAttempt = 0
    /\ rtLastError = NoValue
    /\ rtInvocations = 0
    /\ rtOutcome = [kind |-> "pending", value |-> NoValue]
    /\ rtDelays = << >>
    /\ rfCalls = << >>
    /\ svCache = EmptyMap
    /\ svOp = IdleOp
    /\ trCache = EmptyMap
    /\ trOp = IdleTrainOp
    /\ etaOp = IdleEtaOp
    /\ fnOp = IdleFnOp
    /\ geoOp = IdleGeoOp
    /\ uiState = IdleUi
    /\ selOp = [nearby |-> << >>, selected |-> << >>]
    /\ renderOp = [items |-> << >>, nearbyThreshold |-> 0, sorted |-> << >>]

SpecRt == InitRt /\ [][NextRt]_vars

\* resilientFetch calls for one endpoint, next to a direct retryWithBackoff
\* call as geocodePostcode, loadGTFSData and fetchDepartures make it
NextRF ==
    \/ \E a \in RFApiKeys, q \in {"q1", "q2"} : resilientFetch(a, q)
    \/ \E r \in 1..MaxRFCalls, ok \in BOOLEAN : rawCallSettles(r, ok)
    \/ \E r \in 1..MaxRFCalls : backoffElapsed(r)
    \/ \E r \in 1..MaxRFCalls : circuitBreakerResumes(r)
    \/ \E r \in 1..MaxRFCalls : throttleResumes(r)
    \/ rfTick
    \/ retryStart
    \/ retryFnSettles
    \/ retryTimerFires

\* nothing has been called yet; the throttle has been configured with
\* deduplication and the largest limit explored; the direct
\* retryWithBackoff call uses maxAttempts 2 and initialDelay 1000, and its
\* raw call fails once and then succeeds
InitRF ==
    /\ circuitBreakers = EmptyMap
    /\ now = 0
    /\ cbInFlight = [c \in CircuitKeys \X AdmitStates |-> 0]
    /\ cbInvoked = [k \in CircuitKeys |-> 0]
    /\ cbLast = NoEvent
    /\ cbStreak = [k \in CircuitKeys |-> 0]
    /\ throttleState = EmptyThrottle
    /\ currentConfig = [maxConcurrent |-> MaxConcurrentBound, enableDeduplication |-> TRUE]
    /\ thReqs = << >>
    /\ thCallers = << >>
    /\ rtScript = [i \in 1..RFMaxAttempts |->
                     IF i = 1 THEN [type |-> "Error", message |-> "e1"]
                     ELSE [type |-> "value", message |-> "v1"]]
    /\ rtMaxAttempts = RFMaxAttempts
    /\ rtInitialDelay = 1000
    /\ rtPc = "start"
    /\ rtAttempt = 0
    /\ rtLastError = NoValue
    /\ rtInvocations = 0
    /\ rtOutcome = [kind |-> "pending", value |-> NoValue]
    /\ rtDelays = << >>
    /\ rfCalls = << >>
    /\ svCache = EmptyMap
    /\ svOp = IdleOp
    /\ trCache = EmptyMap
    /\ trOp = IdleTrainOp
    /\ etaOp = IdleEtaOp
    /\ fnOp = IdleFnOp
    /\ geoOp = IdleGeoOp
    /\ uiState = IdleUi
    /\ selOp = [nearby |-> << >>, selected |-> << >>]
    /\ renderOp = [items |-> << >>, nearbyThreshold |-> 0, sorted |-> << >>]

SpecRF == InitRF /\ [][NextRF]_vars

NextSv ==
    \/ \E stop \in {NearbyStopIds[i] : i \in DOMAIN NearbyStopIds} :
          getDeparturesForStop(stop)
    \/ \E found \in FindOutcomes : getBothDirections(found)
    \/ \E found \in FindOutcomes : refreshBothDirections(found)
    \/ \E i \in DOMAIN NearbyStopIds : cacheReadSettles(i)
    \/ \E i \in DOMAIN NearbyStopIds, ok \in BOOLEAN, d \in DepartureLists :
          fetchSettles(i, ok, d)
    \/ \E i \in DOMAIN NearbyStopIds, ok \in BOOLEAN : cacheWriteSettles(i, ok)
    \/ allSettledResumes
    \/ svTick

SpecSv == Init /\ [][NextSv]_vars

NextTr ==
    \/ \E stations \in StationLists : getDeparturesForAllStations(stations)
    \/ \E stations \in StationLists : refreshDeparturesForAllStations(stations)
    \* how a read of the store ends: the get request succeeds, the store is
    \* unavailable (openDatabase rejects or the request errors), or
    \* db.transaction throws inside the promise executor
    \/ \E i \in 1..Cardinality(TrainStations), o \in {"served", "storeError", "throws"} :
          trainCacheReadSettles(i, o)
    \* how the resilientFetch call of fetchTrainDepartures ends: with a response,
    \* with an error (network error, HTTP error, retries exhausted), with a
    \* CircuitOpenError; or it is never made because the API key is missing
    \/ \E i \in 1..Cardinality(TrainStations), u \in {"ok", "failed", "circuitOpen", "keyMissing"},
          d \in DepartureLists : trainFetchSettles(i, u, d)
    \* how a write of the store ends: the put succeeds, openDatabase rejects
    \* (caught, nothing stored), or the put request errors (the promise rejects)
    \/ \E i \in 1..Cardinality(TrainStations), o \in {"stored", "unavailable", "putError"} :
          trainCacheWriteSettles(i, o)
    \/ trainAllSettledResumes
    \/ trTick

SpecTr == Init /\ [][NextTr]_vars

NextEta ==
    \/ \E limit \in Limits : calculateDepartures(limit)
    \/ \E available \in BOOLEAN : isGTFSDataAvailableSettles(available)
    \/ \E ok \in BOOLEAN, rows \in ScheduledRows(CHOOSE x \in Limits : \A y \in Limits : x >= y) :
          getScheduledDeparturesSettles(ok, rows)
    \/ \E ok \in BOOLEAN, vehicles \in
            \* the vehicle lists fetchVehiclesNear can resolve to; the distance of
            \* a vehicle from the stop in metres: two within the matching range
            \* of 3000 m, one beyond it
            UNION {[1..n -> [line : Lines, distance : {480, 2400, 3360}]] :
                      n \in 0..MaxVehicles} :
          fetchVehiclesNearSettles(ok, vehicles)

SpecEta == Init /\ [][NextEta]_vars

NextFn ==
    \/ \E maxResults \in 1..MaxResultsBound : findNearest(maxResults)
    \/ \E dataset \in
            \* what getStops resolves to: null, or the stops of the dataset, each
            \* given as the distance calculateDistance will compute for it, in
            \* metres: inside the radius, on it and beyond it
            {[isNull |-> TRUE, stops |-> << >>]} \cup
            {[isNull |-> FALSE, stops |-> st] :
                st \in UNION {[1..n -> {300, 700, 1000, 1400}] : n \in 0..MaxStops}} :
          getStopsSettles(dataset)

SpecFn == Init /\ [][NextFn]_vars

NextGeo ==
    \/ \E valid \in BOOLEAN, script \in
            \* the answers the endpoint gives to the successive requests of one call
            [1..GEOCODE_MAX_ATTEMPTS ->
                {Found, [type |-> "value", message |-> "no result"], NotFound404,
                 [type |-> "Error", message |-> "API error"],
                 [type |-> "Error", message |-> "fetch failed"]}] :
          geocodePostcode(valid, script)
    \/ retryStart
    \/ retryFnSettles
    \/ retryTimerFires
    \/ geocodeResumes

SpecGeo == Init /\ [][NextGeo]_vars

NextUi ==
    \/ handleRefresh
    \/ \E g \in 1..MaxUiOps, success \in BOOLEAN : refreshSettles(g, success)
    \/ handleShowMore
    \/ \E ok \in BOOLEAN : getExpandedStopsSettles(ok)
    \/ \E ok \in BOOLEAN, withDepartures \in SUBSET DOMAIN StopDistance :
          additionalBoardsSettle(ok, withDepartures)

SpecUi == Init /\ [][NextUi]_vars

NextSel ==
    \E bearings \in UNION {[1..n -> {"N", "S", "X", "none"}] : n \in 1..MaxNearby} :
        selectStopsToShow(bearings)

SpecSel == Init /\ [][NextSel]_vars

NextRender ==
    \* items at three distances, favorite or not, and a nearby-priority radius
    \* between the first two or between the last two
    \E items \in UNION {[1..n -> [isFav : BOOLEAN, distance : {100, 400, 900}]] :
                            n \in 0..MaxItems},
       nearbyThreshold \in {250, 600} :
        renderItems(items, nearbyThreshold)

SpecRender == Init /\ [][NextRender]_vars

----------------------------------------------------------------------------
(* Claims about the circuit breaker, checked under SpecCB *)

\* C1: a circuit that is CLOSED (or not yet created) becomes OPEN exactly in
\* the step that records a failure bringing the number of failures recorded
\* since the last recorded success to failureThreshold; a success recorded
\* while CLOSED sets failures to 0; on the transition nextAttemptTime is
\* now + resetTimeout, strictly in the future.
C1_OpensAtThreshold ==
    [][\A k \in CircuitKeys :
        LET closedBefore == k \notin DOMAIN circuitBreakers
                            \/ circuitBreakers[k].state = "CLOSED"
            cfg == fullConfig(k)
            failureStep == cbLast'.kind = "failure" /\ cbLast'.key = k
            successStep == cbLast'.kind = "success" /\ cbLast'.key = k
        IN  (closedBefore /\ k \in DOMAIN circuitBreakers') =>
              LET after == circuitBreakers'[k]
              IN  /\ after.state \in {"CLOSED", "OPEN"}
                  /\ (after.state = "OPEN")
                        <=> (failureStep /\ cbStreak'[k] = cfg.failureThreshold)
                  /\ after.state = "OPEN" =>
                        /\ after.nextAttemptTime = now' + cfg.resetTimeout
                        /\ after.nextAttemptTime > now'
                  /\ successStep => after.failures = 0
                  /\ after.state = "CLOSED" => after.failures = cbStreak'[k]
      ]_vars

\* C1 witness: a circuit has just opened on its failureThreshold-th failure
\* in a row although more calls than that were made (one of them succeeded)
C1_Witness ==
    \E k \in DOMAIN circuitBreakers :
        /\ circuitBreakers[k].state = "OPEN"
        /\ cbLast.kind = "failure" /\ cbLast.key = k
        /\ cbStreak[k] = fullConfig(k).failureThreshold
        /\ circuitBreakers[k].failures = fullConfig(k).failureThreshold
        /\ cbInvoked[k] > fullConfig(k).failureThreshold
        /\ \A a \in AdmitStates : cbInFlight[<<k, a>>] = 0

\* C2: once failureThreshold failures in a row have opened the circuit, every
\* call made before the cooldown has elapsed is rejected with CircuitOpenError,
\* the underlying function is not invoked, and the error's retryAfter is
\* positive.
C2_RejectedWithPositiveRetryAfter ==
    [][\A k \in CircuitKeys :
        LET open == /\ k \in DOMAIN circuitBreakers
                    /\ circuitBreakers[k].state = "OPEN"
                    /\ cbStreak[k] >= fullConfig(k).failureThreshold
                    /\ now < circuitBreakers[k].nextAttemptTime
            callStep == cbLast'.kind \in {"admitted", "CircuitOpenError"} /\ cbLast'.key = k
        IN  (open /\ callStep) =>
              /\ cbLast'.kind = "CircuitOpenError"
              /\ cbInvoked' = cbInvoked
              /\ cbLast'.retryAfter > 0
      ]_vars

\* C6: while a call admitted in HALF_OPEN has not completed, every other call
\* on the key is rejected and the underlying function is not invoked.
C6_SingleProbe ==
    [][\A k \in CircuitKeys :
        LET probing == /\ k \in DOMAIN circuitBreakers
                       /\ circuitBreakers[k].state = "HALF_OPEN"
                       /\ cbInFlight[<<k, "HALF_OPEN">>] > 0
            callStep == cbLast'.kind \in {"admitted", "CircuitOpenError"} /\ cbLast'.key = k
        IN  (probing /\ callStep) =>
              /\ cbLast'.kind = "CircuitOpenError"
              /\ cbInvoked' = cbInvoked
      ]_vars

\* C7: a success recorded in HALF_OPEN increments successes; when that makes
\* successes reach successThreshold the circuit is CLOSED with failures = 0
\* and successes = 0, otherwise it stays HALF_OPEN.
C7_ClosesAtSuccessThreshold ==
    [][\A k \in CircuitKeys :
        LET halfOpen == k \in DOMAIN circuitBreakers
                        /\ circuitBreakers[k].state = "HALF_OPEN"
            successStep == cbLast'.kind = "success" /\ cbLast'.key = k
        IN  (halfOpen /\ successStep) =>
              LET before == circuitBreakers[k]
                  after == circuitBreakers'[k]
              IN  IF before.successes + 1 >= fullConfig(k).successThreshold
                  THEN after.state = "CLOSED" /\ after.failures = 0 /\ after.successes = 0
                  ELSE after.state = "HALF_OPEN" /\ after.successes = before.successes + 1
                       /\ after.successes < fullConfig(k).successThreshold
      ]_vars

\* C7 witness: a circuit with successThreshold 2 has just closed after its
\* failureThreshold failures and two half-open successes
C7_Witness ==
    \E k \in DOMAIN circuitBreakers :
        /\ fullConfig(k).successThreshold = 2
        /\ circuitBreakers[k].state = "CLOSED"
        /\ circuitBreakers[k].nextAttemptTime > 0
        /\ circuitBreakers[k].failures = 0 /\ circuitBreakers[k].successes = 0
        /\ cbLast.kind = "success" /\ cbLast.key = k
        /\ cbInvoked[k] = fullConfig(k).failureThreshold + 2
        /\ \A a \in AdmitStates : cbInFlight[<<k, a>>] = 0

\* C8: a failure recorded in HALF_OPEN puts the circuit back to OPEN with
\* nextAttemptTime = now + resetTimeout; every half-open period starts with
\* successes = 0, so successes of an earlier period are not counted.
C8_HalfOpenFailureReopens ==
    [][\A k \in CircuitKeys :
        LET halfOpen == k \in DOMAIN circuitBreakers
                        /\ circuitBreakers[k].state = "HALF_OPEN"
            failureStep == cbLast'.kind = "failure" /\ cbLast'.key = k
        IN  /\ (halfOpen /\ failureStep) =>
                /\ circuitBreakers'[k].state = "OPEN"
                /\ circuitBreakers'[k].nextAttemptTime = now' + fullConfig(k).resetTimeout
            /\ (~halfOpen /\ k \in DOMAIN circuitBreakers'
                          /\ circuitBreakers'[k].state = "HALF_OPEN") =>
                circuitBreakers'[k].successes = 0
      ]_vars

\* C8 witness: a second half-open period has begun with successes = 0 after a
\* half-open period in which a success was followed by a failure
C8_Witness ==
    \E k \in DOMAIN circuitBreakers :
        /\ fullConfig(k).successThreshold = 2
        /\ circuitBreakers[k].state = "HALF_OPEN"
        /\ circuitBreakers[k].successes = 0
        /\ circuitBreakers[k].failures = fullConfig(k).failureThreshold + 1
        /\ cbStreak[k] = 1
        /\ cbInvoked[k] = fullConfig(k).failureThreshold + 3
        /\ cbInFlight[<<k, "HALF_OPEN">>] = 1
        /\ cbInFlight[<<k, "CLOSED">>] = 0

\* C9: an OPEN circuit stops being OPEN only by resetCircuitBreaker or by a
\* call made when now >= nextAttemptTime, which makes it HALF_OPEN and invokes
\* the function; such a call always does so, and no step taken while
\* now < nextAttemptTime (a tick, an earlier call, a late outcome) does.
C9_LeavesOpenOnlyAfterCooldown ==
    [][\A k \in CircuitKeys :
        LET open == k \in DOMAIN circuitBreakers /\ circuitBreakers[k].state = "OPEN"
            stillOpen == k \in DOMAIN circuitBreakers' /\ circuitBreakers'[k].state = "OPEN"
            callStep == cbLast'.kind \in {"admitted", "CircuitOpenError"} /\ cbLast'.key = k
            probe == /\ cbLast'.kind = "admitted" /\ cbLast'.key = k
                     /\ now >= circuitBreakers[k].nextAttemptTime
                     /\ k \in DOMAIN circuitBreakers'
                     /\ circuitBreakers'[k].state = "HALF_OPEN"
                     /\ cbInvoked'[k] = cbInvoked[k] + 1
        IN  open =>
              /\ ~stillOpen => (probe \/ (cbLast'.kind = "reset" /\ cbLast'.key = k))
              /\ (callStep /\ now >= circuitBreakers[k].nextAttemptTime) => probe
              /\ (callStep /\ now < circuitBreakers[k].nextAttemptTime) =>
                    (stillOpen /\ cbInvoked' = cbInvoked)
      ]_vars

\* C9 witness: the call made after the cooldown has just been admitted and
\* the circuit is HALF_OPEN
C9_Witness ==
    \E k \in DOMAIN circuitBreakers :
        /\ circuitBreakers[k].state = "HALF_OPEN"
        /\ cbLast.kind = "admitted" /\ cbLast.key = k
        /\ now >= circuitBreakers[k].nextAttemptTime
        /\ circuitBreakers[k].nextAttemptTime > 0
        /\ cbInFlight[<<k, "HALF_OPEN">>] = 1

----------------------------------------------------------------------------
(* Claims about the request throttle, checked under SpecTh *)

\* C3: the number of operations started and not yet finished (running, or
\* settled with executeRequest not yet resumed) never exceeds maxConcurrent,
\* and neither does activeCount.
C3_ActiveWithinLimit ==
    LET outstanding == {r \in DOMAIN thReqs :
                           thReqs[r].status \in {"running", "fnResolved", "fnRejected"}}
    IN  /\ Cardinality(outstanding) <= currentConfig.maxConcurrent
        /\ throttleState.activeCount <= currentConfig.maxConcurrent

\* C3 witness: the throttle is full, a call is waiting and an earlier one has
\* already completed
C3_Witness ==
    /\ Cardinality({r \in DOMAIN thReqs : thReqs[r].status = "running"})
          = currentConfig.maxConcurrent
    /\ throttleState.queue # << >>
    /\ \E r \in DOMAIN thReqs : thReqs[r].status = "resolved"

\* C4: with deduplication enabled a key has at most one unfinished request,
\* and a throttledRequest call for a key that has one creates no promise,
\* starts nothing and returns the promise of that request, so its caller
\* observes that request's resolution or rejection.
C4_DedupSharesInFlight ==
    [][currentConfig.enableDeduplication =>
        \A k \in ThrottleKeys :
          LET n == Len(thCallers')
              callStep == n = Len(thCallers) + 1 /\ thCallers'[n].key = k
              live == {r \in DOMAIN thReqs :
                          /\ thReqs[r].key = k
                          /\ thReqs[r].status \in {"queued", "running",
                                                   "fnResolved", "fnRejected"}}
          IN  /\ Cardinality(live) <= 1
              /\ (callStep /\ live # {}) =>
                    /\ thReqs' = thReqs
                    /\ throttleState' = throttleState
                    /\ thCallers'[n].promise \in live
      ]_vars

\* C4 witness: two callers of one key share a promise that was queued, then
\* ran and resolved
C4_Witness ==
    /\ currentConfig.enableDeduplication
    /\ \E c1, c2 \in DOMAIN thCallers :
          /\ c1 # c2
          /\ thCallers[c1].key = thCallers[c2].key
          /\ thCallers[c1].promise = thCallers[c2].promise
          /\ thReqs[thCallers[c1].promise].wasQueued
          /\ thReqs[thCallers[c1].promise].status = "resolved"

\* C10: when a queued request is started, no request submitted before it is
\* left waiting in the queue.
C10_FifoStart ==
    [][\A r \in DOMAIN thReqs :
          (thReqs[r].status = "queued" /\ thReqs'[r].status # "queued") =>
              \A r2 \in 1..(r - 1) : thReqs'[r2].status # "queued"
      ]_vars

\* C10 witness: of two requests that both had to wait, the earlier one has
\* been started and the later one is still queued
C10_Witness ==
    \E r, r2 \in DOMAIN thReqs :
        /\ r < r2
        /\ thReqs[r].wasQueued /\ thReqs[r2].wasQueued
        /\ thReqs[r].status = "running"
        /\ thReqs[r2].status = "queued"

----------------------------------------------------------------------------
(* Claims about retryWithBackoff, checked under SpecRt *)

\* C5 as claimed: when retryWithBackoff has finished, with k the number of
\* failures before fn's first success: if k < maxAttempts, fn was invoked
\* k + 1 times and the success value is returned; otherwise fn was invoked
\* maxAttempts times and the call rejects with the very value the last
\* invocation rejected with.
C5_RejectsWithLastThrown ==
    rtPc = "done" =>
        LET k == Cardinality({i \in 1..rtMaxAttempts :
                                 \A j \in 1..i : rtScript[j].type # "value"})
        IN  IF k < rtMaxAttempts
            THEN /\ rtInvocations = k + 1
                 /\ rtOutcome = [kind |-> "returned", value |-> rtScript[k + 1]]
            ELSE /\ rtInvocations = rtMaxAttempts
                 /\ rtOutcome = [kind |-> "threw", value |-> rtScript[rtMaxAttempts]]

\* C5 amended: as above, but the rejection is the last invocation's error
\* only when that is an Error instance; any other rejected value is replaced
\* by a new Error carrying its string form as message.
C5_RejectsWithLastError ==
    rtPc = "done" =>
        LET k == Cardinality({i \in 1..rtMaxAttempts :
                                 \A j \in 1..i : rtScript[j].type # "value"})
            last == rtScript[rtMaxAttempts]
        IN  IF k < rtMaxAttempts
            THEN /\ rtInvocations = k + 1
                 /\ rtOutcome = [kind |-> "returned", value |-> rtScript[k + 1]]
            ELSE /\ rtInvocations = rtMaxAttempts
                 /\ rtOutcome.kind = "threw"
                 /\ rtOutcome.value.type = "Error"
                 /\ rtOutcome.value.message = last.message
                 /\ last.type = "Error" => rtOutcome.value = last

\* C5 witness: three attempts failed differently, the last with a non-Error
C5_Witness ==
    /\ rtPc = "done"
    /\ rtMaxAttempts = 3
    /\ rtInvocations = 3
    /\ rtScript[1] = [type |-> "Error", message |-> "e1"]
    /\ rtScript[3].type = "string"
    /\ rtOutcome.kind = "threw"

\* ---- C11 ----
Settled(r) == r \in DOMAIN thReqs /\ thReqs[r].status \in {"resolved", "rejected"}

\* C11: every call submitted to the throttle is eventually started and its
\* promise eventually settles, provided every started operation eventually
\* completes
C11_EveryCallSettles ==
    \A r \in 1..MaxFairCalls : (r \in DOMAIN thReqs) ~> Settled(r)

\* ---- C12 ----
\* requests whose operation has been started and whose executeRequest has
\* not yet reached its finally block
Active == {r \in DOMAIN thReqs : thReqs[r].status \in {"running", "fnResolved", "fnRejected"}}

\* C12: under a fixed configuration with maxConcurrent = N, a new call is
\* started at once iff fewer than N calls are active and is appended to the
\* queue otherwise; when an active call completes while the queue is
\* non-empty the head of the queue is started in the same step; the queue is
\* non-empty only while exactly N calls are active
C12_StartOrQueueAtLimit ==
    /\ [](/\ Cardinality(Active) = throttleState.activeCount
          /\ throttleState.queue # << >> =>
                Cardinality(Active) = currentConfig.maxConcurrent)
    /\ [][/\ Len(thReqs') = Len(thReqs) + 1 =>
               LET new == Len(thReqs')
               IN  IF Cardinality(Active) < currentConfig.maxConcurrent
                   THEN /\ thReqs'[new].status # "queued"
                        /\ throttleState'.queue = throttleState.queue
                   ELSE /\ thReqs'[new].status = "queued"
                        /\ throttleState'.queue = Append(throttleState.queue, new)
                        /\ Active' = Active
           /\ \A r \in Active :
                (/\ Settled(r)'
                 /\ throttleState.queue # << >>) =>
                    thReqs'[Head(throttleState.queue)].status # "queued"
          ]_vars

\* N calls are active with one more waiting, and a call that waited has
\* been promoted and is now active
C12_Witness ==
    /\ Cardinality(Active) = currentConfig.maxConcurrent
    /\ Len(throttleState.queue) = 1
    /\ \E r \in Active : thReqs[r].wasQueued

\* ---- C13 ----
\* C13: once the operation for a key has completed (its promise has settled)
\* the key's dedup entry no longer refers to it, and a call then issued for
\* that key starts a new operation instead of receiving the settled promise
C13_NoStaleDedupEntry ==
    /\ [](\A r \in DOMAIN thReqs :
            Settled(r) => \/ thReqs[r].key \notin DOMAIN throttleState.inFlight
                          \/ throttleState.inFlight[thReqs[r].key] # r)
    /\ [][Len(thCallers') = Len(thCallers) + 1 =>
            LET c == thCallers'[Len(thCallers')]
            IN  ~Settled(c.promise)]_vars

\* ---- C14 ----
\* C14: when a throttled operation fails, only its own promise is rejected:
\* its slot is freed, the head of the queue is started in the same step,
\* every other active call is left as it was, and a queued call stays in the
\* queue, is started, or is rejected by the failure of its own operation
C14_FailureIsIsolated ==
    [][\A r \in Active :
         (thReqs[r].status = "fnRejected" /\ thReqs'[r].status = "rejected") =>
            /\ throttleState'.activeCount =
                  throttleState.activeCount - 1 + Cardinality(Active' \ Active)
            /\ throttleState.queue # << >> =>
                  thReqs'[Head(throttleState.queue)].status # "queued"
            /\ \A o \in DOMAIN thReqs \ {r} :
                  /\ o \in Active => thReqs'[o] = thReqs[o]
                  /\ Settled(o) => thReqs'[o] = thReqs[o]
                  /\ thReqs[o].status = "queued" =>
                        \/ /\ thReqs'[o].status = "queued"
                           /\ \E i \in DOMAIN throttleState'.queue :
                                 throttleState'.queue[i] = o
                        \/ thReqs'[o].status = "running"
                        \/ /\ thReqs'[o].status = "rejected"
                           /\ thReqs[o].fn = "throws"
      ]_vars

\* an operation failed and a call that was waiting behind it has been
\* started and has resolved
C14_Witness ==
    \E r, o \in DOMAIN thReqs :
        /\ r < o
        /\ thReqs[r].status = "rejected"
        /\ thReqs[r].fn = "async"
        /\ thReqs[o].wasQueued
        /\ thReqs[o].status = "resolved"

\* ---- C15 ----
\* the failure count of the endpoint's circuit (0 while it does not exist)
failuresOf(cbs, key) == IF key \in DOMAIN cbs THEN cbs[key].failures ELSE 0

\* C15: a call waiting in the throttle has not reached the circuit breaker;
\* the circuit breaker records at most one outcome per operation and exactly
\* one once an admitted operation has finished: a failure only when all
\* RFMaxAttempts attempts failed, a success when the last attempt made
\* succeeded; a step in which no operation's outcome is recorded leaves the
\* circuit's failure count alone, so the count never exceeds the number of
\* operations whose retry sequence was exhausted
C15_OneOutcomePerCall ==
    /\ [](\A r \in DOMAIN rfCalls :
            LET c == rfCalls[r]
            IN  /\ thReqs[r].status = "queued" => (c.pc = "queued" /\ c.invocations = 0)
                /\ ~c.admitted => (c.invocations = 0 /\ c.recorded = << >>)
                /\ Len(c.recorded) <= 1
                /\ (Settled(r) /\ c.admitted) => Len(c.recorded) = 1
                /\ c.recorded = <<"failure">> =>
                      (c.failed = RFMaxAttempts /\ c.invocations = RFMaxAttempts)
                /\ c.recorded = <<"success">> =>
                      (c.failed < RFMaxAttempts /\ c.invocations = c.failed + 1))
    /\ [](\A a \in RFApiKeys :
            failuresOf(circuitBreakers, a) <=
              Cardinality({r \in DOMAIN rfCalls : /\ rfCalls[r].apiKey = a
                                                  /\ rfCalls[r].recorded = <<"failure">>}))
    /\ [][(\A r \in DOMAIN rfCalls : rfCalls'[r].recorded = rfCalls[r].recorded) =>
            \A a \in RFApiKeys :
               failuresOf(circuitBreakers', a) = failuresOf(circuitBreakers, a)]_vars

\* an operation failed on both attempts and one failure has been counted,
\* while another operation failed once, succeeded on its second attempt and
\* was recorded as a success
C15_Witness ==
    \E r, o \in DOMAIN rfCalls :
        /\ rfCalls[r].failed = RFMaxAttempts
        /\ rfCalls[r].recorded = <<"failure">>
        /\ failuresOf(circuitBreakers, rfCalls[r].apiKey) = 1
        /\ rfCalls[o].failed = 1
        /\ rfCalls[o].recorded = <<"success">>

\* ---- C16 ----
\* C16: every raw call to an external endpoint is made by resilientFetch (no
\* raw call is invoked by a bare retryWithBackoff), and no raw call is
\* invoked while the endpoint's circuit is OPEN
C16_RawCallsBehindBreaker ==
    [][/\ rtInvocations' = rtInvocations
       /\ \A r \in DOMAIN rfCalls' :
            (r \notin DOMAIN rfCalls \/ rfCalls'[r].invocations > rfCalls[r].invocations) =>
               \/ rfCalls'[r].invocations = 0
               \/ /\ rfCalls'[r].apiKey \in DOMAIN circuitBreakers'
                  /\ circuitBreakers'[rfCalls'[r].apiKey].state # "OPEN"
      ]_vars

\* ---- C17 ----
\* the per-stop calls that run getDeparturesForStop
CacheFirstSubs == {i \in DOMAIN svOp.subs : svOp.subs[i].mode = "cacheFirst"}

C18_CacheFirstWriteThrough ==
    /\ [](\A i \in CacheFirstSubs :
            LET sub == svOp.subs[i]
            IN  /\ (sub.pc = "done" /\ sub.board.isStale) =>
                      (~sub.cached.isNull /\ sub.board.departures = sub.cached.departures
                       /\ sub.fetchResult = "none")
                /\ (sub.pc = "done" /\ sub.fetchResult = "ok") =>
                      (sub.board.departures = sub.fetched /\ ~sub.board.isStale))
    /\ [][\A i \in CacheFirstSubs :
            /\ (svOp.subs[i].pc = "readCache" /\ svOp'.subs[i].pc # "readCache"
                 /\ ~cacheGetDepartures(svCache, svOp.subs[i].stop, now).isNull) =>
                   (svOp'.subs[i].pc = "done" /\ svOp'.subs[i].board.isStale)
            /\ (svOp.subs[i].pc = "writeCache" /\ svOp'.subs[i].pc = "done") =>
                   /\ svOp.subs[i].stop \in DOMAIN svCache'
                   /\ svCache'[svOp.subs[i].stop].departures = svOp.subs[i].fetched
          ]_vars

\* ---- C19 ----
\* C19: getBothDirections returns success:true when the fetch did not fail
\* for at least one selected stop, with one board per stop whose fetch did
\* not fail and one partialFailures entry per stop whose fetch failed, and
\* success:false when the fetch failed for every selected stop
C19_PartialSuccess ==
    \* the stops of the service call whose fetch failed
    LET FetchFailed == {i \in DOMAIN svOp.subs : svOp.subs[i].fetchResult = "failed"}
    IN
    (svOp.kind = "getBothDirections" /\ svOp.pc = "done" /\ svOp.selected # << >>) =>
        IF FetchFailed = DOMAIN svOp.subs
        THEN ~svOp.result.success
        ELSE /\ svOp.result.success
             /\ Len(svOp.result.boards) = Len(svOp.selected) - Cardinality(FetchFailed)
             /\ Len(svOp.result.partialFailures) = Cardinality(FetchFailed)
             /\ \A i \in FetchFailed :
                   \E j \in DOMAIN svOp.result.partialFailures :
                      svOp.result.partialFailures[j].stop = svOp.selected[i]

\* ---- C20 ----
\* C20: refreshBothDirections succeeds iff at least one per-stop call
\* produced a board; a successful result holds every selected stop exactly
\* once, as a board with isStale = FALSE or as a partialFailures entry with
\* that stop and its error; when no call produced a board the result is a
\* single aggregate failure
C20_RefreshPartitions ==
    \* how often a stop occurs among the boards and among the partialFailures
    LET Occurrences(result, stop) ==
            Cardinality({j \in DOMAIN result.boards : result.boards[j].stop = stop}) +
            Cardinality({j \in DOMAIN result.partialFailures :
                            result.partialFailures[j].stop = stop})
    IN
    (svOp.kind = "refreshBothDirections" /\ svOp.pc = "done" /\ svOp.selected # << >>) =>
        LET res == svOp.result
            fulfilled == {i \in DOMAIN svOp.subs : svOp.subs[i].status = "fulfilled"}
        IN  /\ res.success <=> fulfilled # {}
            /\ res.success =>
                  /\ \A i \in DOMAIN svOp.selected : Occurrences(res, svOp.selected[i]) = 1
                  /\ Len(res.boards) + Len(res.partialFailures) = Len(svOp.selected)
                  /\ \A j \in DOMAIN res.boards :
                        /\ ~res.boards[j].isStale
                        /\ \E i \in fulfilled :
                              /\ svOp.selected[i] = res.boards[j].stop
                              /\ svOp.subs[i].fetched = res.boards[j].departures
                  /\ \A j \in DOMAIN res.partialFailures :
                        /\ res.partialFailures[j].error # ""
                        /\ \E i \in DOMAIN svOp.subs \ fulfilled :
                              svOp.selected[i] = res.partialFailures[j].stop
            /\ ~res.success =>
                  (res.boards = << >> /\ res.error = "DEPARTURES_UNAVAILABLE")

\* a refresh of two stops ended with one fresh board and one partial failure
C20_Witness ==
    /\ svOp.kind = "refreshBothDirections"
    /\ svOp.pc = "done"
    /\ svOp.result.success
    /\ Len(svOp.result.boards) = 1
    /\ Len(svOp.result.partialFailures) = 1

----------------------------------------------------------------------------
(* Claims about the train departure service, checked under SpecTr *)

\* ---- C21 ----
\* C21: getDeparturesForAllStations and refreshDeparturesForAllStations
\* return exactly one result per input station, in input order; a station
\* whose fetch failed has a failure result, and every station's result is
\* the one its own per-station call produced, whatever happened to the
\* other stations.
C21_PerStationIsolation ==
    \* the upstream call of a per-station call failed: network or HTTP error or
    \* retries exhausted, circuit open, or no API key to call with
    LET UpstreamFailed(sub) == sub.upstream \in {"failed", "circuitOpen", "keyMissing"}
        TrainAllDone ==
            /\ trOp.pc = "done"
            /\ trOp.kind \in {"getDeparturesForAllStations", "refreshDeparturesForAllStations"}
    IN
    TrainAllDone =>
        /\ Len(trOp.results) = Len(trOp.stations)
        /\ \A i \in DOMAIN trOp.results :
              /\ trOp.results[i].station = trOp.stations[i]
              /\ trOp.results[i] = trOp.subs[i].value
              /\ UpstreamFailed(trOp.subs[i]) => ~trOp.results[i].success

\* ---- C24 ----
\* C24: a successful write stores the fetched list under the station with
\* the time of the write; a read the store serves no later than the TTL
\* after that time resolves to exactly the stored list, which the caller
\* gets as a successful board with isStale = true; a read served later than
\* that resolves to null and the call goes on to fetch.
C24_CacheRoundTrip ==
    [][\A i \in DOMAIN trOp.subs :
          LET sub == trOp.subs[i]
              after == trOp'.subs[i]
              st == sub.station
          IN  /\ (sub.pc = "writeCache" /\ after.writeResult = "stored") =>
                    /\ st \in DOMAIN trCache'
                    /\ trCache'[st].departures = sub.fetched
                    /\ trCache'[st].timestamp = now
              /\ (sub.pc = "readCache" /\ after.readResult = "served"
                     /\ st \in DOMAIN trCache) =>
                    IF now - trCache[st].timestamp <= TRAIN_DEPARTURES_CACHE_TTL
                    THEN /\ ~after.cached.isNull
                         /\ after.cached.departures = trCache[st].departures
                         /\ after.status = "fulfilled"
                         /\ after.value =
                               TrainSuccess(st, trCache[st].departures, TRUE)
                    ELSE /\ after.cached.isNull
                         /\ after.pc = "fetch"
                         /\ after.status = "pending"]_vars

\* a non-empty list written earlier was served exactly one TTL after the
\* write and has just been returned as a stale board
C24_Witness ==
    \E i \in DOMAIN trOp.subs :
        LET sub == trOp.subs[i]
        IN  /\ sub.readResult = "served"
            /\ sub.status = "fulfilled"
            /\ sub.value.success
            /\ sub.value.isStale
            /\ sub.value.departures # << >>
            /\ sub.station \in DOMAIN trCache
            /\ sub.value.departures = trCache[sub.station].departures
            /\ now - trCache[sub.station].timestamp = TRAIN_DEPARTURES_CACHE_TTL

\* ---- C28 ----
\* C28: the train departures store changes only in a step that writes the
\* list of a per-station call whose upstream call succeeded; a call whose
\* upstream call failed (error, retries exhausted, circuit open) writes
\* nothing, so no later cache-first read is served an empty list standing
\* for a failure.
C28_OnlyUpstreamListsCached ==
    [][trCache' # trCache =>
          \E i \in DOMAIN trOp.subs :
              /\ trOp.subs[i].pc = "writeCache"
              /\ trOp'.subs[i].writeResult = "stored"
              /\ trOp.subs[i].upstream = "ok"
              /\ trCache' = trainCacheSetDepartures(trCache, trOp.subs[i].station,
                                                    trOp.subs[i].fetched, now)
      ]_vars

----------------------------------------------------------------------------
(* Claims about the ETA calculator, checked under SpecEta *)

\* ---- C22 ----
\* C22: when the availability probe reported the timetable unavailable,
\* calculateDepartures has not rejected; it returned [] if the live feed
\* failed, and otherwise at most limit departures, one per line with a
\* vehicle, each timed from the nearest vehicle of its line; every returned
\* departure has isRealTime = true.
C22_LiveOnlyWhenUnavailable ==
    \* the lines of the vehicles in the feed
    LET LinesOf(vehicles) == {vehicles[j].line : j \in DOMAIN vehicles}
    IN
    (etaOp.pc = "done" /\ ~etaOp.gtfsAvailable) =>
        /\ etaOp.outcome = "returned"
        /\ etaOp.vehiclesFailed => etaOp.departures = << >>
        /\ Len(etaOp.departures) =
              Min(etaOp.limit, Cardinality(LinesOf(etaOp.vehicles)))
        /\ \A i \in DOMAIN etaOp.departures :
              LET d == etaOp.departures[i]
              IN  /\ d.isRealTime
                  /\ d.line \in LinesOf(etaOp.vehicles)
                  /\ \A k \in DOMAIN etaOp.departures : k # i =>
                        etaOp.departures[k].line # d.line
                  /\ \E j \in DOMAIN etaOp.vehicles :
                        /\ etaOp.vehicles[j].line = d.line
                        /\ d.minutesUntil = minutesFromVehicle(etaOp.vehicles[j])
                        /\ \A k \in DOMAIN etaOp.vehicles :
                              etaOp.vehicles[k].line = d.line =>
                                  etaOp.vehicles[j].distance <= etaOp.vehicles[k].distance

\* the probe reported unavailable and the call, free to return two
\* departures, returned the single one of a line with two vehicles, the
\* nearer of which came second in the feed
C22_Witness ==
    /\ etaOp.pc = "done"
    /\ ~etaOp.gtfsAvailable
    /\ etaOp.outcome = "returned"
    /\ etaOp.limit = 2
    /\ Len(etaOp.departures) = 1
    /\ Len(etaOp.vehicles) = 2
    /\ etaOp.vehicles[2].distance < etaOp.vehicles[1].distance

\* ---- C26 ----
\* C26: when timetable rows exist, calculateDepartures returns at most limit
\* departures in ascending order of minutesUntil, and they are the limit
\* smallest by minutesUntil of the departures built from all the fetched
\* rows and their live matches.
C26_SmallestOfAllCandidates ==
    \* the departures built from all the fetched timetable rows and their live
    \* matches, in timetable order
    LET Candidates ==
            LET kept == SelectSeq(etaOp.scheduled,
                                  LAMBDA row : ~isSkipped(row, etaOp.vehicles))
            IN  [i \in 1..Len(kept) |-> departureOf(kept[i], etaOp.vehicles)]
    IN
    (etaOp.pc = "done" /\ etaOp.scheduled # << >>) =>
        /\ etaOp.outcome = "returned"
        /\ Len(etaOp.departures) = Min(etaOp.limit, Len(Candidates))
        /\ \A k \in DOMAIN etaOp.departures :
              /\ \E i \in DOMAIN Candidates : etaOp.departures[k] = Candidates[i]
              /\ etaOp.departures[k].minutesUntil
                    = sortByMinutes(Candidates)[k].minutesUntil
              /\ k > 1 => etaOp.departures[k - 1].minutesUntil
                             <= etaOp.departures[k].minutesUntil

\* ---- C29 ----
\* C29: when the timetable could not be loaded, because the availability
\* probe reported it unavailable or because the load itself failed after the
\* probe had succeeded, calculateDepartures has not rejected: it returned
\* the live-only result, in which every departure is real-time.
C29_FallsBackWhenLoadFails ==
    (etaOp.pc = "done" /\ (~etaOp.gtfsAvailable \/ etaOp.loadFailed)) =>
        /\ etaOp.outcome = "returned"
        /\ etaOp.departures =
              getRealTimeOnlyDepartures(~etaOp.vehiclesFailed, etaOp.vehicles,
                                        etaOp.limit).departures
        /\ \A i \in DOMAIN etaOp.departures : etaOp.departures[i].isRealTime

----------------------------------------------------------------------------
(* Claims about findNearest, checked under SpecFn *)

\* ---- C23 ----
\* C23: findNearest fails with NO_STOPS_FOUND when no stop of the dataset
\* lies within the configured radius; otherwise it returns a non-empty list
\* of at most maxResults distinct stops of the dataset, each with its
\* distance and within the radius, in order of non-decreasing distance, and
\* no in-radius stop it left out is nearer than one it returned.
C23_NearestWithinRadius ==
    \* the stops of the dataset that lie within the configured radius
    LET InRadius == {i \in DOMAIN fnOp.stops : fnOp.stops[i] <= MAX_SEARCH_RADIUS}
    IN
    fnOp.pc = "done" =>
        IF InRadius = {}
        THEN fnOp.outcome = "NO_STOPS_FOUND"
        ELSE /\ fnOp.outcome = "returned"
             /\ Len(fnOp.nearby) >= 1
             /\ Len(fnOp.nearby) <= fnOp.maxResults
             /\ \A k \in DOMAIN fnOp.nearby :
                   /\ fnOp.nearby[k].atcoCode \in InRadius
                   /\ fnOp.nearby[k].distanceMeters = fnOp.stops[fnOp.nearby[k].atcoCode]
                   /\ fnOp.nearby[k].distanceMeters <= MAX_SEARCH_RADIUS
                   /\ \A j \in DOMAIN fnOp.nearby :
                         /\ j # k => fnOp.nearby[j].atcoCode # fnOp.nearby[k].atcoCode
                         /\ j < k => fnOp.nearby[j].distanceMeters
                                        <= fnOp.nearby[k].distanceMeters
                   /\ \A i \in InRadius :
                         (\A j \in DOMAIN fnOp.nearby : fnOp.nearby[j].atcoCode # i)
                             => fnOp.stops[i] >= fnOp.nearby[k].distanceMeters

\* a call that had to leave out an in-radius stop and a stop beyond the
\* radius, and returned a stop lying exactly on the radius
C23_Witness ==
    \* the stops of the dataset that lie within the configured radius
    LET InRadius == {i \in DOMAIN fnOp.stops : fnOp.stops[i] <= MAX_SEARCH_RADIUS}
    IN
    /\ fnOp.pc = "done"
    /\ fnOp.outcome = "returned"
    /\ Cardinality(InRadius) > Len(fnOp.nearby)
    /\ Cardinality(InRadius) < Len(fnOp.stops)
    /\ \E k \in DOMAIN fnOp.nearby : fnOp.nearby[k].distanceMeters = MAX_SEARCH_RADIUS

----------------------------------------------------------------------------
(* Further claims about the circuit breaker, checked under SpecCB *)

\* ---- C25 ----
\* C25: while a circuit is HALF_OPEN, the success or failure of a call that
\* was admitted while the circuit was CLOSED leaves the circuit as it is: it
\* neither counts as a probe success, nor closes the circuit, nor re-opens
\* it.
C25_LateOutcomeIsNotProbe ==
    [][\A k \in CircuitKeys :
          (/\ k \in DOMAIN circuitBreakers
           /\ circuitBreakers[k].state = "HALF_OPEN"
           /\ cbInFlight'[<<k, "CLOSED">>] < cbInFlight[<<k, "CLOSED">>])
              => (k \in DOMAIN circuitBreakers' /\ circuitBreakers'[k] = circuitBreakers[k])
      ]_vars

----------------------------------------------------------------------------
(* Claims about geocodePostcode, checked under SpecGeo *)

\* ---- C27 ----
\* C27: when the geocoding endpoint answers the request for a postcode with
\* not found, the endpoint is called exactly once, no backoff wait is
\* started, and the caller gets the typed POSTCODE_NOT_FOUND error.
C27_NotFoundNotRetried ==
    (/\ geoOp.pc \in {"retrying", "done"}
     /\ geoOp.valid
     /\ rtInvocations >= 1
     /\ rtPc # "awaitFn"
     /\ rtScript[1] = NotFound404) =>
        /\ rtInvocations = 1
        /\ rtDelays = << >>
        /\ geoOp.pc = "done" => geoOp.outcome = "POSTCODE_NOT_FOUND"

----------------------------------------------------------------------------
(* Claims about the progressive search state, checked under SpecUi *)

\* ---- C30 ----
\* C30: whenever no handler is under way, every stop returned by an
\* expansion completed since the last refresh is among the displayed stop
\* codes, whether or not it had departures and was rendered; so the next
\* expansion is given an exclusion set that contains it.
C30_ExpandedStopsStayShown ==
    (uiState.pc = "idle" /\ uiState.refreshing = {}) =>
        uiState.expanded \subseteq CodesOf(uiState.displayedAtcoCodes)

----------------------------------------------------------------------------
(* Further claims about retryWithBackoff, checked under SpecRt *)

\* ---- C34 ----
\* C34: the wait after the n-th failed attempt, for n < maxAttempts, is
\* exactly min(initialDelay * 2^(n-1), 10000) ms, and no wait follows the
\* final failed attempt: a call that has failed f times has waited
\* min(f, maxAttempts - 1) times, the n-th wait being that value
C34_BackoffDelays ==
    LET failed == IF rtPc = "awaitFn" THEN rtInvocations - 1
                  ELSE IF rtOutcome.kind = "returned" THEN rtInvocations - 1
                  ELSE rtInvocations
        expected(n) == IF rtInitialDelay * 2^(n - 1) <= 10000
                       THEN rtInitialDelay * 2^(n - 1) ELSE 10000
    IN  rtPc # "start" =>
           /\ Len(rtDelays) = Min(failed, rtMaxAttempts - 1)
           /\ \A n \in DOMAIN rtDelays : rtDelays[n] = expected(n)

\* every attempt of a three-attempt call failed: two waits, the second one
\* cut to the cap, and none after the last failure
C34_Witness ==
    /\ rtPc = "done"
    /\ rtOutcome.kind = "threw"
    /\ rtMaxAttempts = 3
    /\ rtInvocations = 3
    /\ rtDelays = <<8000, 10000>>

----------------------------------------------------------------------------
(* Further claims about the circuit breaker, checked under SpecCB *)

\* ---- C39 ----
\* C39: circuit state is per key: a step changes the state, counters or
\* cooldown of a key only when it is a call, an outcome or a reset on that
\* key, and a reset of a key leaves that key in the initial CLOSED state
\* with zero counters (a key without an entry is in the initial state)
C39_PerKeyIsolation ==
    [][LET initial == [state |-> "CLOSED", failures |-> 0, successes |-> 0,
                       lastFailureTime |-> 0, nextAttemptTime |-> 0]
           stateOf(cbs, k) == IF k \in DOMAIN cbs THEN cbs[k] ELSE initial
       IN  /\ \A k \in CircuitKeys :
                 stateOf(circuitBreakers', k) # stateOf(circuitBreakers, k) =>
                     cbLast'.key = k
           /\ cbLast'.kind = "reset" =>
                 stateOf(circuitBreakers', cbLast'.key) = initial
      ]_vars

\* one key has just been reset while the circuit of another key is open
C39_Witness ==
    /\ cbLast.kind = "reset"
    /\ cbLast.key \notin DOMAIN circuitBreakers
    /\ \E k \in DOMAIN circuitBreakers :
          /\ circuitBreakers[k].state = "OPEN"
          /\ circuitBreakers[k].failures > 0

----------------------------------------------------------------------------
(* Claims about the throttle under reconfiguration and reset, checked     *)
(* under SpecThAdmin                                                       *)

\* ---- C40 ----
\* C40: the throttle's active count equals the number of operations it has
\* started that have not yet completed and is never negative, also when
\* resetThrottle or configureThrottle runs while operations are running or
\* queued
C40_ActiveCountIsRunning ==
    /\ throttleState.activeCount = Cardinality(Active)
    /\ throttleState.activeCount >= 0

----------------------------------------------------------------------------
(* Claims about the stop selection, checked under SpecSel *)

\* ---- C35 ----
\* C35: the selected stops are at most 2 from the primary group (the stops
\* sharing the nearest stop's bearing) and at most 2 from the opposite
\* group (the stops with the geometrically opposite bearing or, if the
\* nearby set has none, the stops with a different bearing), and nothing
\* else; the nearest stop is always selected and no stop is selected twice
C35_TwoPerDirection ==
    LET nearby == selOp.nearby
        sel == selOp.selected
        opposite == CASE nearby[1].bearing = "N" -> "S"
                      [] nearby[1].bearing = "S" -> "N"
                      [] OTHER -> "none"
        primary == {i \in DOMAIN nearby : nearby[i].bearing = nearby[1].bearing}
        labelled == {i \in DOMAIN nearby :
                        opposite # "none" /\ nearby[i].bearing = opposite}
        different == {i \in DOMAIN nearby :
                         /\ nearby[i].bearing # "none"
                         /\ nearby[i].bearing # nearby[1].bearing}
        oppositeGroup == IF labelled # {} THEN labelled ELSE different
    IN  nearby # << >> =>
           /\ \A k \in DOMAIN sel : sel[k] \in primary \cup oppositeGroup
           /\ Cardinality({k \in DOMAIN sel : sel[k] \in primary}) <= 2
           /\ Cardinality({k \in DOMAIN sel : sel[k] \in oppositeGroup}) <= 2
           /\ \E k \in DOMAIN sel : sel[k] = 1
           /\ \A k, l \in DOMAIN sel : sel[k] = sel[l] => k = l

\* three stops share the nearest stop's bearing and one has the opposite
\* one: the third of the primary group is left out
C35_Witness ==
    /\ Len(selOp.nearby) = 4
    /\ Cardinality({i \in DOMAIN selOp.nearby :
                       selOp.nearby[i].bearing = selOp.nearby[1].bearing}) = 3
    /\ selOp.nearby[1].bearing = "N"
    /\ \E i \in DOMAIN selOp.nearby : selOp.nearby[i].bearing = "S"
    /\ Len(selOp.selected) = 3

----------------------------------------------------------------------------
(* Claims about the render order, checked under SpecRender *)

----------------------------------------------------------------------------
(* Further claims about the ETA calculator, checked under SpecEta *)

\* ---- C38 ----
\* C38: each live vehicle accounts for at most one real-time departure of a
\* calculateDepartures result: the result has no more real-time departures
\* of a line than there are vehicles of that line that can be matched (on
\* the timetable path the vehicles within matching range, on the live-only
\* path all of them)
C38_OneDeparturePerVehicle ==
    (etaOp.pc = "done" /\ etaOp.outcome = "returned") =>
        \A line \in Lines :
            Cardinality({k \in DOMAIN etaOp.departures :
                            /\ etaOp.departures[k].line = line
                            /\ etaOp.departures[k].isRealTime}) <=
            Cardinality({j \in DOMAIN etaOp.vehicles :
                            /\ etaOp.vehicles[j].line = line
                            /\ \/ etaOp.scheduled = << >>
                               \/ etaOp.vehicles[j].distance < MATCH_RANGE_METERS})

\* ---- C32 ----
\* C32: a failed cache write never discards departures that were fetched
\* successfully -- a per-station train call whose upstream fetch succeeded
\* settles with a success result that carries exactly the fetched departures,
\* whatever the outcome of the cache write
C32_WriteFailureKeepsFetched ==
    \A i \in DOMAIN trOp.subs :
        (trOp.subs[i].pc = "done" /\ trOp.subs[i].upstream = "ok")
            => /\ trOp.subs[i].value.success
               /\ trOp.subs[i].value.departures = trOp.subs[i].fetched

----------------------------------------------------------------------------
(* Claims about handlers in flight together, checked under SpecUi *)

\* ---- C31 ----
\* C31: a show-more expansion or an earlier refresh that is still in flight
\* when a newer refresh starts never writes the shared display state behind
\* it: a step of a handler that began before a refresh that has since
\* started leaves the search radius and the max-radius flag as they are,
\* and a step of a handler that began before a refresh that has since
\* rendered leaves the shown stop codes and the display items as they are
C31_NoStaleWrites ==
    [][/\ uiState'.last.gen < uiState.gen =>
            /\ uiState'.currentSearchRadius = uiState.currentSearchRadius
            /\ uiState'.hasReachedMaxRadius = uiState.hasReachedMaxRadius
       /\ uiState'.last.gen < uiState.rendered =>
            /\ uiState'.displayedAtcoCodes = uiState.displayedAtcoCodes
            /\ uiState'.allDisplayItems = uiState.allDisplayItems
      ]_vars

\* ---- C33 ----
\* C33: when handleRefresh completes, the search radius is the configured
\* base radius, the max-radius flag is false, and the shown stop codes and
\* the display items are exactly what that refresh produced (the stops
\* within the base radius, or none when the bus lookup failed), whatever
\* expansions happened before
C33_RefreshResetsSearch ==
    [][uiState'.last.kind = "refreshSettled" =>
          /\ uiState'.currentSearchRadius = MAX_SEARCH_RADIUS
          /\ ~uiState'.hasReachedMaxRadius
          /\ uiState'.displayedAtcoCodes \in
                {NearestFirst(newStopsWithin({}, MAX_SEARCH_RADIUS)), << >>}
          /\ uiState'.allDisplayItems = uiState'.displayedAtcoCodes
      ]_vars

----------------------------------------------------------------------------
(* Further claims about the rail feed client, checked under SpecTr *)

====
